---- MODULE Spec2Model ----
(***************************************************************************)
(* housekeeper: the duplicate pass of the cleaner (cleaner.py), the sort   *)
(* pass (sorter.py), the worker pool (lib/threaded.py), the quality ranker *)
(* (lib/classifier.py) and the mover (lib/utils.py).                       *)
(***************************************************************************)
EXTENDS Integers, Sequences, FiniteSets, TLC

VARIABLES cmd, lib, dry_run, trashDepth, pc, files, pool, threads, waitIdx,
          loc, fi, media, gi, ri, plan, errors, moved, related, exc, cls, probe

vars == <<cmd, lib, dry_run, trashDepth, pc, files, pool, threads, waitIdx,
          loc, fi, media, gi, ri, plan, errors, moved, related, exc, cls, probe>>

(***************************************************************************)
(* Bounds of the model.                                                    *)
(***************************************************************************)
\* files found by one scan of a library that holds copies of one title
MaxFiles == 5
\* files found by one scan of a mixed library
MaxMixed == 3
\* files found by one sort pass
MaxSort == 2
\* same-named files already lying under the deleted-media directory
MaxTrash == 1

(***************************************************************************)
(* lib/classifier.py: the weights of the ranker.                           *)
(***************************************************************************)
HDR == 100
DUBBED == 90
THREED == 80
REMUX == 50
FOUR_K == 40
HD == 30
CD == 10
LOW_QUALITY == -50

\* the width of the cleaner's and the sorter's worker pool, Threaded(5)
PoolWidth == 5

None == "None"

Resolutions == {None, "2160p", "1080p", "720p", "480p", "360p", "240p", "144p", "576p"}

\* rank_file with the signals tested by an if/elif chain: the first one wins
rank_first_only(info) ==
    IF info.hdr THEN HDR
    ELSE IF info.dubbed THEN DUBBED
    ELSE IF info.threed THEN THREED
    ELSE IF info.remux THEN REMUX
    ELSE IF info.resolution = "2160p" THEN FOUR_K
    ELSE IF info.resolution = "1080p" THEN HD
    ELSE IF info.cd THEN CD
    ELSE IF info.resolution \in {"720p", "480p", "360p", "240p", "144p"}
         THEN LOW_QUALITY
    ELSE 0

\* Classifier.rank_file
rank_file(info) ==
    LET r1 == IF info.hdr THEN HDR ELSE 0
        r2 == r1 + (IF info.dubbed THEN DUBBED ELSE 0)
        r3 == r2 + (IF info.threed THEN THREED ELSE 0)
        r4 == r3 + (IF info.remux THEN REMUX ELSE 0)
        r5 == r4 + (IF info.resolution = "2160p" THEN FOUR_K ELSE 0)
        r6 == r5 + (IF info.resolution = "1080p" THEN HD ELSE 0)
        r7 == r6 + (IF info.cd THEN CD ELSE 0)
        r8 == r7 + (IF \/ info.resolution = "720p"
                       \/ info.resolution = "480p"
                       \/ info.resolution = "360p"
                       \/ info.resolution = "240p"
                       \/ info.resolution = "144p"
                       \/ info.resolution = "240p"
                    THEN LOW_QUALITY ELSE 0)
    IN  r8

\* the quality fields of the info dict, Classifier.__init__
NoTokens == [hdr |-> FALSE, dubbed |-> FALSE, threed |-> FALSE, remux |-> FALSE,
             cd |-> FALSE, resolution |-> None]

AllTokens == [hdr : BOOLEAN, dubbed : BOOLEAN, threed : BOOLEAN, remux : BOOLEAN,
              cd : BOOLEAN, resolution : Resolutions]

(***************************************************************************)
(* Paths.  root/dir/extras/name: dir is <<>> for an entry directly under   *)
(* the root, name is 0 for a directory, n is the _<count> suffix that      *)
(* Utils.new_unique_file gave the name (0: none).                          *)
(***************************************************************************)
MediaRoots == {"movies", "series", "unsorted"}
DeletedRoot == "deleted"
DownloadRoot == "downloads"
NoPath == [root |-> None, dir |-> <<>>, extras |-> FALSE, name |-> 0, n |-> 0]

Path(root, dir, extras, name, n) ==
    [root |-> root, dir |-> dir, extras |-> extras, name |-> name, n |-> n]

\* os.path.isfile on a path of the model
isfile(p) == p.name # 0

\* os.path.dirname
dirname(p) ==
    IF p.name # 0 THEN [p EXCEPT !.name = 0, !.n = 0]
    ELSE IF p.extras THEN [p EXCEPT !.extras = FALSE]
    ELSE [p EXCEPT !.dir = <<>>]

\* os.path.join(directory, os.path.basename(file))
join_basename(d, f) == [d EXCEPT !.name = f.name, !.n = f.n]

\* "/extras/" in path
in_extras(p) == p.extras /\ p.name # 0

\* "@eadir" in str.lower(path)
in_eadir(p) == \E k \in DOMAIN p.dir : p.dir[k] = "@eadir"

\* Utils.extras_dir
extras_dir(media_path) == [media_path EXCEPT !.extras = TRUE]

\* Utils.replace_media_path
replace_media_path(p, new_root) ==
    IF p.root \in MediaRoots THEN [p EXCEPT !.root = new_root] ELSE NoPath

\* a check that protects no directory
protects_nothing(dst) == FALSE

\* dst in config.media_dirs.values() or dst == config.deleted_media_dir
is_protected(dst) ==
    /\ dst.root \in MediaRoots \cup {DeletedRoot}
    /\ dst.dir = <<>> /\ ~dst.extras /\ dst.name = 0

(***************************************************************************)
(* The filesystem.  loc[i] is the path at which the content of file i      *)
(* lies (NoPath before the classifier has read the path); td same-named    *)
(* files of earlier runs lie under the deleted-media directory.            *)
(***************************************************************************)
MaxScan ==
    LET m == IF MaxFiles > MaxMixed THEN MaxFiles ELSE MaxMixed
    IN  IF m > MaxSort THEN m ELSE MaxSort

FileIds == 1..MaxScan

\* the files that lie somewhere on the disk
OnDiskIds(fs) == { i \in DOMAIN fs : fs[i] # NoPath }

\* os.path.exists of a file path
exists(fs, td, p) ==
    /\ p.name # 0
    /\ \/ \E i \in DOMAIN fs : fs[i] = p
       \/ p.root = DeletedRoot /\ p.n < td

RECURSIVE unique_loop(_, _, _, _, _)
unique_loop(fs, td, dir, unique_filename, count) ==
    IF exists(fs, td, join_basename(dir, unique_filename))
    THEN unique_loop(fs, td, dir, [unique_filename EXCEPT !.n = count], count + 1)
    ELSE join_basename(dir, unique_filename)

\* a Utils.new_unique_file that returns the name it was given
new_unique_file_same(fs, td, dir, file) == join_basename(dir, file)

\* Utils.new_unique_file (file is a file)
new_unique_file(fs, td, dir, file) == unique_loop(fs, td, dir, file, 1)

\* shutil.move of a file: into dst when dst is a directory, refusing an
\* existing entry there
shutil_move(fs, td, src, dst) ==
    LET real_dst == IF isfile(dst) THEN dst ELSE join_basename(dst, src)
    IN  IF ~isfile(dst) /\ exists(fs, td, real_dst)
        THEN [fs |-> fs, raised |-> TRUE]
        ELSE [fs |-> [i \in DOMAIN fs |-> IF fs[i] = src THEN real_dst ELSE fs[i]],
              raised |-> FALSE]

\* Utils.move; raised is an exception that leaves move
Utils_move(fs, td, dry, src, dst) ==
    IF src = dst THEN [fs |-> fs, raised |-> FALSE]
    ELSE IF src = NoPath \/ dst = NoPath THEN [fs |-> fs, raised |-> TRUE]
    ELSE IF in_eadir(src) \/ in_eadir(dst) THEN [fs |-> fs, raised |-> FALSE]
    ELSE IF is_protected(dst) THEN [fs |-> fs, raised |-> TRUE]
    ELSE LET dst1 == IF exists(fs, td, dst) /\ isfile(dst)
                     THEN new_unique_file(fs, td, dirname(dst), dst)
                     ELSE dst
         IN  IF dry THEN [fs |-> fs, raised |-> FALSE]
             ELSE IF exists(fs, td, src)
                  THEN [fs |-> shutil_move(fs, td, src, dst1).fs, raised |-> FALSE]
                  ELSE [fs |-> fs, raised |-> FALSE]

\* a delete that unlinks the file in place
Utils_unlink(fs, td, dry, p) ==
    IF dry THEN fs
    ELSE [i \in DOMAIN fs |-> IF fs[i] = p THEN NoPath ELSE fs[i]]

\* Utils.delete; no exception leaves it
Utils_delete(fs, td, dry, p) ==
    IF dry THEN fs
    ELSE Utils_move(fs, td, dry, p, replace_media_path(p, DeletedRoot)).fs

(***************************************************************************)
(* The classifier.  What the parser and the catalog make of a file name is *)
(* an input: title ("" when none can be derived), year, season, episode,   *)
(* kind and the quality tokens.                                            *)
(***************************************************************************)
\* Classifier.set_media_dir; the inputs carry no documentary genre and the
\* configuration names no directory for a language
set_media_dir(info) == IF info.kind = "series" THEN "series" ELSE "movies"

\* Classifier.set_new_dir
set_new_dir(info) ==
    IF info.title = "" THEN NoPath
    ELSE Path(set_media_dir(info), <<info.title, info.year>>, FALSE, 0, 0)

\* Classifier.classify of the file at path p whose name parses to f
classify(p, f) ==
    LET i1 == [title |-> f.title, year |-> f.year, kind |-> f.kind,
               season |-> f.season, episode |-> f.episode, old_path |-> p,
               hdr |-> f.tok.hdr, dubbed |-> f.tok.dubbed, threed |-> f.tok.threed,
               remux |-> f.tok.remux, cd |-> f.tok.cd, resolution |-> f.tok.resolution]
        i2 == i1 @@ [rank |-> rank_file(i1)]
        i3 == i2 @@ [new_dir |-> set_new_dir(i2)]
    IN  i3 @@ [new_path |-> IF i3.new_dir = NoPath THEN NoPath
                            ELSE join_basename(i3.new_dir, p)]

\* the key of the media dict, collect_media_info
media_key(info) == <<info.title, info.year, info.season, info.episode>>

\* a sort by rank ascending (key=lambda x: x["rank"])
RECURSIVE insert_ascending(_, _)
insert_ascending(s, x) ==
    IF s = <<>> THEN <<x>>
    ELSE IF s[Len(s)].rank <= x.rank THEN Append(s, x)
    ELSE Append(insert_ascending(SubSeq(s, 1, Len(s) - 1), x), s[Len(s)])

RECURSIVE sorted_ascending(_)
sorted_ascending(v) ==
    IF v = <<>> THEN <<>>
    ELSE insert_ascending(sorted_ascending(SubSeq(v, 1, Len(v) - 1)), v[Len(v)])

\* a sort by rank descending that puts a record before its ties
RECURSIVE insert_unstable(_, _)
insert_unstable(s, x) ==
    IF s = <<>> THEN <<x>>
    ELSE IF s[Len(s)].rank > x.rank THEN Append(s, x)
    ELSE Append(insert_unstable(SubSeq(s, 1, Len(s) - 1), x), s[Len(s)])

RECURSIVE sorted_unstable(_)
sorted_unstable(v) ==
    IF v = <<>> THEN <<>>
    ELSE insert_unstable(sorted_unstable(SubSeq(v, 1, Len(v) - 1)), v[Len(v)])

\* sorted(v, key=lambda x: -x["rank"]): a stable sort, by insertion
RECURSIVE insert_sorted(_, _)
insert_sorted(s, x) ==
    IF s = <<>> THEN <<x>>
    ELSE IF s[Len(s)].rank >= x.rank THEN Append(s, x)
    ELSE Append(insert_sorted(SubSeq(s, 1, Len(s) - 1), x), s[Len(s)])

RECURSIVE sorted(_)
sorted(v) ==
    IF v = <<>> THEN <<>>
    ELSE insert_sorted(sorted(SubSeq(v, 1, Len(v) - 1)), v[Len(v)])

(***************************************************************************)
(* Inputs: what a scanned file name parses to and where the file lies.     *)
(***************************************************************************)
\* e.g. Movie.A.2020.1080p.HDR.mkv, Movie.A.2020.3D.mkv, Movie.A.2020.720p.mkv
Profiles == { [NoTokens EXCEPT !.hdr = TRUE, !.resolution = "1080p"],
              [NoTokens EXCEPT !.threed = TRUE],
              [NoTokens EXCEPT !.resolution = "720p"] }

MovieA(tok) == [title |-> "a", year |-> "2020", kind |-> "movie",
                season |-> None, episode |-> None, tok |-> tok]
SeriesB(tok) == [title |-> "b", year |-> None, kind |-> "series",
                 season |-> 1, episode |-> 1, tok |-> tok]
\* e.g. S01E02.mkv: cleanup_title leaves an empty title
Untitled(tok) == [title |-> "", year |-> None, kind |-> "series",
                  season |-> 1, episode |-> 2, tok |-> tok]

ParsedNames(l) ==
    IF l = "copies" THEN { MovieA(t) : t \in Profiles }
    ELSE { MovieA([NoTokens EXCEPT !.threed = TRUE]),
           SeriesB([NoTokens EXCEPT !.resolution = "720p"]),
           Untitled(NoTokens) }

Places(l) == IF l = "copies" THEN {"canon"} ELSE {"canon", "extras", "rootextras"}

\* the path of file id under the library roots
on_disk(id, f, place) ==
    LET root == set_media_dir(f)
    IN  IF place = "rootextras" THEN Path(root, <<>>, TRUE, id, 0)
        ELSE Path(root, <<f.title, f.year>>, place = "extras", id, 0)

ScanBound ==
    IF cmd = "sort" THEN MaxSort
    ELSE IF lib = "copies" THEN MaxFiles ELSE MaxMixed

(***************************************************************************)
(* State after construction: Cleaner.__init__ / Sorter.__init__.           *)
(***************************************************************************)
\* no Classifier has read the file yet
NoInfo == [title |-> None, old_path |-> NoPath]

NoProbe == [info |-> NoTokens, rank |-> 0, ranked |-> FALSE]

Idle ==
    /\ pc = "scan" /\ files = <<>> /\ pool = <<>> /\ threads = <<>>
    /\ waitIdx = 0 /\ loc = [i \in FileIds |-> NoPath] /\ fi = 0
    /\ media = <<>> /\ gi = 0 /\ ri = 0 /\ plan = <<>> /\ errors = {}
    /\ moved = {} /\ related = {} /\ exc = "" /\ cls = [i \in FileIds |-> NoInfo]

Init ==
    /\ cmd \in {"clean", "sort"}
    /\ lib \in (IF cmd = "clean" THEN {"copies", "mixed"} ELSE {"mixed"})
    /\ dry_run \in BOOLEAN
    /\ trashDepth \in 0..MaxTrash
    /\ Idle
    /\ probe = NoProbe

(***************************************************************************)
(* Threaded                                                                *)
(***************************************************************************)
Task(fn, id, path) == [fn |-> fn, id |-> id, path |-> path, st |-> "pending"]

\* Threaded.run
Threaded_run(task) ==
    /\ pool' = Append(pool, task)
    /\ threads' = Append(threads, Len(pool) + 1)

Running == { t \in DOMAIN pool : pool[t].st = "running" }
Unfinished == { t \in DOMAIN pool : pool[t].st \in {"pending", "running"} }

\* a worker of the ThreadPoolExecutor takes the next queued task
StartTask(t) ==
    /\ pool[t].st = "pending"
    /\ \A u \in 1..(t - 1) : pool[u].st # "pending"
    /\ Cardinality(Running) < PoolWidth
    /\ pool' = [pool EXCEPT ![t].st = "running"]
    /\ UNCHANGED <<cmd, lib, dry_run, trashDepth, pc, files, threads, waitIdx,
                   loc, fi, media, gi, ri, plan, errors, moved, related, exc,
                   cls, probe>>

\* the step after Threaded.wait returns
AfterWait == IF cmd = "clean" THEN "group" ELSE "done"

\* Threaded.wait, no threads
WaitNone ==
    /\ pc = "wait" /\ threads = <<>>
    /\ pc' = AfterWait /\ fi' = 1
    /\ UNCHANGED <<cmd, lib, dry_run, trashDepth, files, pool, threads, waitIdx,
                   loc, media, gi, ri, plan, errors, moved, related, exc, cls,
                   probe>>

\* a wait that asks t.done() and goes on, instead of blocking in t.result()
WaitResult_nonblocking ==
    /\ pc = "wait" /\ waitIdx \in DOMAIN threads
    /\ pool[threads[waitIdx]].st # "raised"
    /\ waitIdx' = waitIdx + 1
    /\ UNCHANGED <<cmd, lib, dry_run, trashDepth, pc, files, pool, threads, loc,
                   fi, media, gi, ri, plan, errors, moved, related, exc, cls,
                   probe>>

\* Threaded.wait: t.result() of a finished task
WaitResult ==
    /\ pc = "wait" /\ waitIdx \in DOMAIN threads
    /\ pool[threads[waitIdx]].st = "done"
    /\ waitIdx' = waitIdx + 1
    /\ UNCHANGED <<cmd, lib, dry_run, trashDepth, pc, files, pool, threads, loc,
                   fi, media, gi, ri, plan, errors, moved, related, exc, cls,
                   probe>>

\* Threaded.wait: t.result() re-raises the task's exception
WaitRaises ==
    /\ pc = "wait" /\ waitIdx \in DOMAIN threads
    /\ pool[threads[waitIdx]].st = "raised"
    /\ pc' = "crashed" /\ exc' = "classify"
    /\ UNCHANGED <<cmd, lib, dry_run, trashDepth, files, pool, threads, waitIdx,
                   loc, fi, media, gi, ri, plan, errors, moved, related, cls,
                   probe>>

\* Threaded.wait: threads.clear() and return
WaitReturn ==
    /\ pc = "wait" /\ threads # <<>> /\ waitIdx = Len(threads) + 1
    /\ threads' = <<>> /\ waitIdx' = 0
    /\ pc' = AfterWait /\ fi' = 1
    /\ UNCHANGED <<cmd, lib, dry_run, trashDepth, files, pool, loc, media, gi,
                   ri, plan, errors, moved, related, exc, cls, probe>>

(***************************************************************************)
(* Work of the pool's tasks                                                *)
(***************************************************************************)
Finish(t, st) == pool' = [pool EXCEPT ![t].st = st]

\* classifier.classify run by the pool for collect_media_info: its result
\* is dropped, an exception of it is kept in the future
RunClassify(t) ==
    /\ pool[t].st = "running" /\ pool[t].fn = "classify"
    /\ \E raises \in BOOLEAN : Finish(t, IF raises THEN "raised" ELSE "done")
    /\ UNCHANGED <<cmd, lib, dry_run, trashDepth, pc, files, threads, waitIdx,
                   loc, fi, media, gi, ri, plan, errors, moved, related, exc,
                   cls, probe>>

\* Utils.delete run by the pool for delete_low_quality
RunDelete(t) ==
    /\ pool[t].st = "running" /\ pool[t].fn = "delete"
    /\ loc' = Utils_delete(loc, trashDepth, dry_run, pool[t].path)
    /\ Finish(t, "done")
    /\ UNCHANGED <<cmd, lib, dry_run, trashDepth, pc, files, threads, waitIdx,
                   fi, media, gi, ri, plan, errors, moved, related, exc, cls,
                   probe>>

\* Classifier.classify_move run by the pool for Sorter.sort
RunClassifyMove(t) ==
    /\ pool[t].st = "running" /\ pool[t].fn = "classify_move"
    /\ \E f \in ParsedNames("mixed"), raises \in BOOLEAN, sibling \in BOOLEAN,
          dir \in {<<>>, <<"@eadir">>} :
          LET id == pool[t].id
              p == Path(DownloadRoot, dir, FALSE, id, 0)
              fs1 == [loc EXCEPT ![id] = p]
              info == classify(p, f)
              res == Utils_move(fs1, trashDepth, dry_run, p, info.new_path)
          IN  IF raises
              THEN /\ errors' = errors \cup {[id |-> id, msg |-> "Error sorting"]}
                   /\ loc' = fs1
                   /\ UNCHANGED <<moved, related, cls>>
              ELSE /\ cls' = [cls EXCEPT ![id] = [title |-> info.title, old_path |-> p]]
                   /\ IF info.new_dir = NoPath
                      THEN /\ errors' = errors \cup
                                {[id |-> id, msg |-> "No new dir provided"]}
                           /\ loc' = fs1
                           /\ UNCHANGED <<moved, related>>
                      ELSE /\ moved' = moved \cup {id}
                           /\ loc' = res.fs
                           /\ errors' = IF res.raised
                                         THEN errors \cup
                                              {[id |-> id, msg |-> "Error sorting"]}
                                         ELSE errors
                           /\ related' = IF sibling /\ res.fs[id] # p
                                         THEN related \cup {id} ELSE related
    /\ Finish(t, "done")
    /\ UNCHANGED <<cmd, lib, dry_run, trashDepth, pc, files, threads, waitIdx,
                   fi, media, gi, ri, plan, exc, probe>>

(***************************************************************************)
(* Sorter.sort                                                             *)
(***************************************************************************)
SortFile ==
    /\ cmd = "sort" /\ pc = "scan" /\ Len(files) < ScanBound
    /\ files' = Append(files, Len(files) + 1)
    /\ Threaded_run(Task("classify_move", Len(files) + 1, NoPath))
    /\ UNCHANGED <<cmd, lib, dry_run, trashDepth, pc, waitIdx, loc, fi, media,
                   gi, ri, plan, errors, moved, related, exc, cls, probe>>

(***************************************************************************)
(* Cleaner.collect_media_info                                              *)
(***************************************************************************)
\* lines 64-92: one more file passes the filters
CollectFile ==
    /\ cmd = "clean" /\ pc = "scan" /\ Len(files) < ScanBound
    /\ files' = Append(files, Len(files) + 1)
    /\ Threaded_run(Task("classify", Len(files) + 1, NoPath))
    /\ UNCHANGED <<cmd, lib, dry_run, trashDepth, pc, waitIdx, loc, fi, media,
                   gi, ri, plan, errors, moved, related, exc, cls, probe>>

\* the scan loop ends and self.threaded.wait() is entered
ScanDone ==
    /\ pc = "scan"
    /\ pc' = "wait" /\ waitIdx' = 1
    /\ UNCHANGED <<cmd, lib, dry_run, trashDepth, files, pool, threads, loc, fi,
                   media, gi, ri, plan, errors, moved, related, exc, cls, probe>>

\* self.media[key].append(media_info)
add_media(m, info) ==
    IF \E g \in DOMAIN m : m[g].key = media_key(info)
    THEN [g \in DOMAIN m |-> IF m[g].key = media_key(info)
                             THEN [m[g] EXCEPT !.recs = Append(@, info)]
                             ELSE m[g]]
    ELSE Append(m, [key |-> media_key(info), recs |-> <<info>>])

\* the title check left out
no_title_never(media_info) == FALSE

\* if not media_info or not media_info["title"]
no_title(media_info) == media_info.title = ""

\* lines 96-105, one file
GroupFile ==
    /\ pc = "group" /\ fi \in DOMAIN files
    /\ \E f \in ParsedNames(lib), place \in Places(lib) :
          LET id == files[fi]
              p == on_disk(id, f, place)
              media_info == classify(p, f)
          IN  /\ loc' = [loc EXCEPT ![id] = p]
              /\ cls' = [cls EXCEPT ![id] =
                             [title |-> media_info.title, old_path |-> p]]
              /\ IF no_title(media_info)
                 THEN /\ errors' = errors \cup
                           {[id |-> id, msg |-> "Failed to get title"]}
                      /\ UNCHANGED media
                 ELSE /\ media' = add_media(media, media_info)
                      /\ UNCHANGED errors
    /\ fi' = fi + 1
    /\ UNCHANGED <<cmd, lib, dry_run, trashDepth, pc, files, pool, threads,
                   waitIdx, gi, ri, plan, moved, related, exc, probe>>

\* line 97 raises: nothing catches it
GroupFileRaises ==
    /\ pc = "group" /\ fi \in DOMAIN files
    /\ pc' = "crashed" /\ exc' = "classify"
    /\ UNCHANGED <<cmd, lib, dry_run, trashDepth, files, pool, threads, waitIdx,
                   loc, fi, media, gi, ri, plan, errors, moved, related, cls,
                   probe>>

\* collect_media_info returns into delete_low_quality
GroupDone ==
    /\ pc = "group" /\ fi = Len(files) + 1
    /\ pc' = "rank" /\ gi' = 1 /\ ri' = 1 /\ fi' = 0
    /\ UNCHANGED <<cmd, lib, dry_run, trashDepth, files, pool, threads, waitIdx,
                   loc, media, plan, errors, moved, related, exc, cls, probe>>

(***************************************************************************)
(* Cleaner.delete_low_quality, lines 111-142                               *)
(***************************************************************************)
\* the counter tested before it is incremented
keep_pos_zero(i) == i = 0

\* if i <= 4
demote_upto4(i) == i <= 4

\* if i < 3
demote_upto2(i) == i < 3

\* if i == 1
keep_pos(i) == i = 1

\* if i < 4
demote_pos(i) == i < 4

\* v of the group at hand
v == sorted(media[gi].recs)

Logged(act, r) == plan' = Append(plan, [act |-> act, path |-> r.old_path,
                                        g |-> gi, i |-> ri, rank |-> r.rank])

\* i == 1
RankKeep ==
    /\ pc = "rank" /\ gi \in DOMAIN media /\ ri \in DOMAIN v /\ keep_pos(ri)
    /\ LET r == v[ri]
           new_path == IF in_extras(r.old_path)
                       THEN dirname(dirname(r.old_path)) ELSE NoPath
           res == Utils_move(loc, trashDepth, dry_run, r.old_path, new_path)
       IN  /\ Logged("keep", r)
           /\ IF new_path # NoPath
              THEN /\ loc' = res.fs
                   /\ pc' = IF res.raised THEN "crashed" ELSE pc
                   /\ exc' = IF res.raised THEN "move" ELSE exc
              ELSE UNCHANGED <<loc, pc, exc>>
    /\ ri' = ri + 1
    /\ UNCHANGED <<cmd, lib, dry_run, trashDepth, files, pool, threads, waitIdx,
                   fi, media, gi, errors, moved, related, cls, probe>>

\* i < 4
RankDemote ==
    /\ pc = "rank" /\ gi \in DOMAIN media /\ ri \in DOMAIN v
    /\ ~keep_pos(ri) /\ demote_pos(ri)
    /\ LET r == v[ri]
           new_path == IF ~in_extras(r.old_path)
                       THEN join_basename(extras_dir(r.new_dir), r.old_path)
                       ELSE NoPath
           res == Utils_move(loc, trashDepth, dry_run, r.old_path, new_path)
       IN  /\ Logged("demote", r)
           /\ IF new_path # NoPath
              THEN /\ loc' = res.fs
                   /\ pc' = IF res.raised THEN "crashed" ELSE pc
                   /\ exc' = IF res.raised THEN "move" ELSE exc
              ELSE UNCHANGED <<loc, pc, exc>>
    /\ ri' = ri + 1
    /\ UNCHANGED <<cmd, lib, dry_run, trashDepth, files, pool, threads, waitIdx,
                   fi, media, gi, errors, moved, related, cls, probe>>

\* otherwise: self.threaded.run(Utils.delete, r["old_path"])
RankDelete ==
    /\ pc = "rank" /\ gi \in DOMAIN media /\ ri \in DOMAIN v
    /\ ~keep_pos(ri) /\ ~demote_pos(ri)
    /\ Logged("delete", v[ri])
    /\ Threaded_run(Task("delete", 0, v[ri].old_path))
    /\ ri' = ri + 1
    /\ UNCHANGED <<cmd, lib, dry_run, trashDepth, pc, files, waitIdx, loc, fi,
                   media, gi, errors, moved, related, exc, cls, probe>>

\* the inner loop ends: next item of self.media
RankNextGroup ==
    /\ pc = "rank" /\ gi \in DOMAIN media /\ ri = Len(v) + 1
    /\ gi' = gi + 1 /\ ri' = 1
    /\ UNCHANGED <<cmd, lib, dry_run, trashDepth, pc, files, pool, threads,
                   waitIdx, loc, fi, media, plan, errors, moved, related, exc,
                   cls, probe>>

\* return
RankReturn ==
    /\ pc = "rank" /\ gi = Len(media) + 1
    /\ pc' = "done" /\ gi' = 0 /\ ri' = 0
    /\ UNCHANGED <<cmd, lib, dry_run, trashDepth, files, pool, threads, waitIdx,
                   loc, fi, media, plan, errors, moved, related, exc, cls, probe>>

Next ==
    \/ SortFile
    \/ CollectFile
    \/ ScanDone
    \/ WaitNone
    \/ WaitResult
    \/ WaitRaises
    \/ WaitReturn
    \/ GroupFile
    \/ GroupFileRaises
    \/ GroupDone
    \/ RankKeep
    \/ RankDemote
    \/ RankDelete
    \/ RankNextGroup
    \/ RankReturn
    \/ \E t \in DOMAIN pool : StartTask(t)
    \/ \E t \in DOMAIN pool : RunClassify(t)
    \/ \E t \in DOMAIN pool : RunDelete(t)
    \/ \E t \in DOMAIN pool : RunClassifyMove(t)

Spec == Init /\ [][Next]_vars

(***************************************************************************)
(* The ranker alone, over every combination of the quality fields.         *)
(***************************************************************************)
InitRank ==
    /\ cmd = "rank" /\ lib = "copies" /\ dry_run = FALSE /\ trashDepth = 0
    /\ Idle
    /\ probe \in [info : AllTokens, rank : {0}, ranked : {FALSE}]

\* self.info["rank"] = self.rank_file(self.info), extract_info
ExtractRank ==
    /\ cmd = "rank" /\ ~probe.ranked
    /\ probe' = [probe EXCEPT !.rank = rank_file(probe.info), !.ranked = TRUE]
    /\ UNCHANGED <<cmd, lib, dry_run, trashDepth, pc, files, pool, threads,
                   waitIdx, loc, fi, media, gi, ri, plan, errors, moved, related,
                   exc, cls>>

NextRank == ExtractRank

SpecRank == InitRank /\ [][NextRank]_vars

(***************************************************************************)
(* The metadata resolver alone: Classifier.find_media and Classifier.tmdb  *)
(* over a cache left by earlier runs and a provider whose every answer is  *)
(* an input.  Titles, years and cache keys are strings, written as         *)
(* sequences of characters.  probe holds the resolver's state.             *)
(***************************************************************************)
\* the other variables stay as they are
Frame ==
    UNCHANGED <<cmd, lib, dry_run, trashDepth, pc, files, pool, threads, waitIdx,
                loc, fi, media, gi, ri, plan, errors, moved, related, exc, cls>>

\* queries resolved one after the other by one run
MaxQueries == 2

MAX_RETRIES == 5

\* HTTP status codes of a provider error; 500 stands for every other code
RateLimitCodes == {429, 503, 403}
HttpCodes == RateLimitCodes \cup {500}

Year2020 == <<"2", "0", "2", "0">>
QueryTitles == {<<>>, <<"a">>, <<"a", " ">> \o Year2020}
\* no year: None or ""
NoYear == <<>>
QueryYears == {NoYear, Year2020}

\* what tmdb builds from search.results[0]
CatalogA == [title |-> <<"A">>, year |-> Year2020, kind |-> "movie",
             genres |-> {"Drama"}, languages |-> {"en"}]
CatalogB == [title |-> <<"B">>, year |-> <<>>, kind |-> "series",
             genres |-> {}, languages |-> {"ar"}]
CatalogRecords == {CatalogA, CatalogB}

\* no record: the None of cache.get, of tmdb and of find_media
NoMedia == [title |-> <<>>, year |-> <<>>, kind |-> "", genres |-> {},
            languages |-> {}]

\* title = f"{info['title']} {info['year']}" if info["year"] else info["title"]
query_key(info) ==
    IF info.year # NoYear
    THEN info.title \o <<" ">> \o info.year
    ELSE info.title

CacheKeys == { query_key([title |-> t, year |-> y]) :
                   t \in QueryTitles \ {<<>>}, y \in QueryYears }

\* a cache.get that never finds anything
cache_get_miss(c, key) == NoMedia

\* cache.get(title)
cache_get(c, key) == c[key]

\* cache.set(title, media)
cache_set(c, key, value) == [c EXCEPT ![key] = value]

\* retry <= MAX_RETRIES
may_retry_upto(code, retry) == code \in RateLimitCodes /\ retry <= MAX_RETRIES

\* e.code in [429, 503, 403] and retry < MAX_RETRIES
may_retry(code, retry) == code \in RateLimitCodes /\ retry < MAX_RETRIES

\* the resolver before a query: no call made, nothing slept; calls counts
\* the attempts of the query, failed those answered 429, 503 or 403
NewQuery(info, c, n) ==
    [pc |-> "find", info |-> info, cache |-> c, cache0 |-> c, queries |-> n,
     calls |-> 0, failed |-> 0, retry |-> 0, slept |-> <<>>,
     looked |-> FALSE, held |-> NoMedia, media |-> NoMedia]

InitFind ==
    /\ cmd = "find" /\ lib = "copies" /\ dry_run = FALSE /\ trashDepth = 0
    /\ Idle
    /\ \E t \in QueryTitles, y \in QueryYears,
          c \in [CacheKeys -> {NoMedia} \cup CatalogRecords] :
          probe = NewQuery([title |-> t, year |-> y], c, 1)

\* find_media, lines 322-331: no title, a cache hit, or on to the provider
FindMedia ==
    /\ cmd = "find" /\ probe.pc = "find"
    /\ IF probe.info.title = <<>>
       THEN probe' = [probe EXCEPT !.pc = "return", !.media = NoMedia]
       ELSE LET m == cache_get(probe.cache, query_key(probe.info))
            IN  probe' = [probe EXCEPT !.looked = TRUE, !.held = m, !.media = m,
                                       !.pc = IF m # NoMedia THEN "return" ELSE "tmdb"]
    /\ Frame

\* tmdb, lines 358-378: search.multi answers with a first result
TmdbFound ==
    /\ cmd = "find" /\ probe.pc = "tmdb"
    /\ \E rec \in CatalogRecords :
          probe' = [probe EXCEPT !.calls = @ + 1,
                                 !.media = rec, !.pc = "set"]
    /\ Frame

\* tmdb, lines 360 and 384-386: no result, or an exception that is no HTTPError
TmdbNone ==
    /\ cmd = "find" /\ probe.pc = "tmdb"
    /\ probe' = [probe EXCEPT !.calls = @ + 1, !.media = NoMedia, !.pc = "set"]
    /\ Frame

\* tmdb, lines 379-383 and 386: HTTPError; sleep and call again, or give up
TmdbHTTPError ==
    /\ cmd = "find" /\ probe.pc = "tmdb"
    /\ \E code \in HttpCodes :
          LET limited == IF code \in RateLimitCodes THEN 1 ELSE 0
          IN  IF may_retry(code, probe.retry)
              THEN probe' = [probe EXCEPT !.calls = @ + 1, !.failed = @ + limited,
                                          !.slept = Append(@, probe.retry),
                                          !.retry = @ + 1]
              ELSE probe' = [probe EXCEPT !.calls = @ + 1, !.failed = @ + limited,
                                          !.media = NoMedia, !.pc = "set"]
    /\ Frame

\* find_media, lines 336-339
FindMediaSet ==
    /\ cmd = "find" /\ probe.pc = "set"
    /\ probe' = [probe EXCEPT
                    !.cache = IF probe.media # NoMedia
                              THEN cache_set(@, query_key(probe.info), probe.media)
                              ELSE @,
                    !.pc = "return"]
    /\ Frame

\* the next file of the run is resolved against the cache as it is now
FindNext ==
    /\ cmd = "find" /\ probe.pc = "return" /\ probe.queries < MaxQueries
    /\ \E t \in QueryTitles, y \in QueryYears :
          probe' = NewQuery([title |-> t, year |-> y], probe.cache,
                            probe.queries + 1)
    /\ Frame

NextFind ==
    \/ FindMedia
    \/ TmdbFound
    \/ TmdbNone
    \/ TmdbHTTPError
    \/ FindMediaSet
    \/ FindNext

SpecFind == InitFind /\ [][NextFind]_vars

(***************************************************************************)
(* The title normalizer alone: Classifier.cleanup_title applied twice.     *)
(* A string is a sequence of characters; a value of the info dict is None, *)
(* an int or a str, kept with the text that str() gives it.                *)
(***************************************************************************)
Digits == {"0", "1", "2", "3", "4", "5", "6", "7", "8", "9"}

\* \d
IsDigit(c) == c \in Digits

\* [^a-z] under re.IGNORECASE, over digits, blanks and letters
NonLetter(c) == c \in Digits \cup {" "}

PyNone == [t |-> "none", s |-> <<"N", "o", "n", "e">>]
PyInt(digits) == [t |-> "int", s |-> digits]
PyStr(chars) == [t |-> "str", s |-> chars]

\* bool(value)
truthy(value) ==
    \/ value.t = "str" /\ value.s # <<>>
    \/ value.t = "int" /\ value.s # <<"0">>

\* the prefix of s before position i, the rest of s from position i on
Before(s, i) == SubSeq(s, 1, i - 1)
From(s, i) == SubSeq(s, i, Len(s))

\* the length of the longest run of digits of s that starts at position i
RECURSIVE DigitRun(_, _)
DigitRun(s, i) ==
    IF i \in DOMAIN s /\ IsDigit(s[i]) THEN 1 + DigitRun(s, i + 1) ELSE 0

\* int(text) of a run of digits, as str() prints it: no leading zeros
RECURSIVE int(_)
int(digits) ==
    IF Len(digits) > 1 /\ digits[1] = "0" THEN int(Tail(digits))
    ELSE PyInt(digits)

\* str.strip of blanks
RECURSIVE strip(_)
strip(s) ==
    IF s # <<>> /\ s[1] = " " THEN strip(Tail(s))
    ELSE IF s # <<>> /\ s[Len(s)] = " " THEN strip(Before(s, Len(s)))
    ELSE s

\* S(\d+)E(\d+) matches s at position i
EpisodeAt(s, i) ==
    LET d1 == DigitRun(s, i + 1)
        e == i + 1 + d1
    IN  /\ i \in DOMAIN s /\ s[i] = "S"
        /\ d1 >= 1
        /\ e \in DOMAIN s /\ s[e] = "E"
        /\ DigitRun(s, e + 1) >= 1

\* [^a-z]+?(\d{4}) matches s right after its first p characters, the
\* separator being k characters long
YearAt(s, p, k) ==
    /\ k >= 1 /\ p + k + 4 <= Len(s)
    /\ \A j \in (p + 1)..(p + k) : NonLetter(s[j])
    /\ \A j \in (p + k + 1)..(p + k + 4) : IsDigit(s[j])

\* Classifier.cleanup_title, lines 188-194
cleanup_episode(info) ==
    LET s == info.title
        hits == { i \in DOMAIN s : EpisodeAt(s, i) }
    IN  IF hits = {} THEN info
        ELSE LET i == CHOOSE h \in hits : \A g \in hits : h <= g
                 d1 == DigitRun(s, i + 1)
                 e == i + 1 + d1
                 d2 == DigitRun(s, e + 1)
                 group1 == Before(s, i)
                 group4 == From(s, e + 1 + d2)
             IN  [info EXCEPT
                     !.title = IF group1 # <<>> THEN group1 ELSE group4,
                     !.season = int(SubSeq(s, i + 1, i + d1)),
                     !.episode = int(SubSeq(s, e + 1, e + d2))]

\* Classifier.cleanup_title, lines 197-202
cleanup_year(info) ==
    LET s == info.title
        hits == { p \in 0..Len(s) : \E k \in 1..Len(s) : YearAt(s, p, k) }
    IN  IF hits = {} THEN info
        ELSE LET p == CHOOSE h \in hits : \A g \in hits : h <= g
                 ks == { k \in 1..Len(s) : YearAt(s, p, k) }
                 k == CHOOSE h \in ks : \A g \in ks : h <= g
             IN  [info EXCEPT !.title = SubSeq(s, 1, p),
                              !.year = PyStr(SubSeq(s, p + k + 1, p + k + 4))]

\* Classifier.cleanup_title
cleanup_title(info) ==
    IF info.title = <<>> THEN info
    ELSE LET i1 == cleanup_episode(info)
         IN  cleanup_year([i1 EXCEPT !.title = strip(@)])

\* the pieces a title is put together from, and how many of them
MaxPieces == 4
TitlePieces == {<<"a">>, <<" ">>, <<"S", "1", "E", "2">>, <<"2", "0", "2", "0">>}

RECURSIVE Concat(_)
Concat(pieces) ==
    IF pieces = <<>> THEN <<>> ELSE Head(pieces) \o Concat(Tail(pieces))

Titles == { Concat(ps) : ps \in UNION { [1..n -> TitlePieces] : n \in 0..MaxPieces } }

InitTitle ==
    /\ cmd = "title" /\ lib = "copies" /\ dry_run = FALSE /\ trashDepth = 0
    /\ Idle
    /\ \E t \in Titles, y \in {PyNone, PyInt(<<"1", "9", "9", "9">>)} :
          LET info == [title |-> t, year |-> y, season |-> PyNone,
                       episode |-> PyNone]
          IN  probe = [info |-> info, given |-> info, once |-> info, applied |-> 0]

\* self.cleanup_title(), and once more on its own result
CleanupTitle ==
    /\ cmd = "title" /\ probe.applied < 2
    /\ probe' = [probe EXCEPT !.info = cleanup_title(@),
                              !.once = IF probe.applied = 0
                                       THEN cleanup_title(probe.info) ELSE @,
                              !.applied = @ + 1]
    /\ Frame

NextTitle == CleanupTitle

SpecTitle == InitTitle /\ [][NextTitle]_vars

(***************************************************************************)
(* Classifier.classify step by step, for a run of files.  What PTN.parse   *)
(* and the regexes of the module find in a file name is given with the     *)
(* name; what find_media returns is an input (SpecFind is its model).      *)
(***************************************************************************)
\* files classified by one run
MaxClassified == 2

Chars(n) ==
    CASE n = 1 -> <<"1">> [] n = 2 -> <<"2">> [] n = 300 -> <<"3", "0", "0">>
      [] n = 301 -> <<"3", "0", "1">> [] n = 1917 -> <<"1", "9", "1", "7">>
      [] n = 2020 -> Year2020 [] n = 2024 -> <<"2", "0", "2", "4">>

\* PTN.parse finds nothing
NoPTN == [title |-> <<>>, year |-> PyNone, season |-> PyNone, episode |-> PyNone]

\* series_regex does not match
NoMatch == [matched |-> FALSE, season |-> PyNone, episode |-> PyNone]

\* a file name: its text without extension, what the parsers find in it and,
\* for a sport event, the number of the event
FileName(stem, ptn, series, ufc, lead, event) ==
    [stem |-> stem, ptn |-> ptn, series |-> series, ufc |-> ufc, lead |-> lead,
     event |-> event, tok |-> NoTokens]

\* Movie.A.2020.mkv
MovieFile ==
    FileName(<<"a", " ">> \o Year2020,
             [NoPTN EXCEPT !.title = <<"a">>, !.year = PyInt(Year2020)],
             NoMatch, FALSE, <<>>, 0)
\* Show.B.S01E02.mkv
EpisodeFile ==
    FileName(<<"b", " ", "S", "0", "1", "E", "0", "2">>,
             [NoPTN EXCEPT !.title = <<"b">>, !.season = PyInt(Chars(1)),
                           !.episode = PyInt(Chars(2))],
             [matched |-> TRUE, season |-> PyStr(<<"0", "1">>),
              episode |-> PyStr(<<"0", "2">>)], FALSE, <<>>, 0)
\* Show.B.S01.Complete.mkv: a season without an episode number
SeasonFile ==
    FileName(<<"b", " ", "S", "0", "1">>,
             [NoPTN EXCEPT !.title = <<"b">>, !.season = PyInt(Chars(1))],
             NoMatch, FALSE, <<>>, 0)
\* b.S01E02.mkv when PTN gives the title only
RegexFile ==
    FileName(<<"b", " ", "S", "0", "1", "E", "0", "2">>,
             [NoPTN EXCEPT !.title = <<"b">>],
             [matched |-> TRUE, season |-> PyStr(<<"0", "1">>),
              episode |-> PyStr(<<"0", "2">>)], FALSE, <<>>, 0)
\* c.mkv
PlainFile ==
    FileName(<<"c">>, [NoPTN EXCEPT !.title = <<"c">>], NoMatch, FALSE, <<>>, 0)
\* 1917.mkv
LeadYearFile ==
    FileName(Chars(1917), NoPTN, NoMatch, FALSE, Chars(1917), 0)
\* UFC.300.2024.mkv, UFC.301.2024.mkv
UfcFile(event) ==
    FileName(<<"U", "F", "C", " ">> \o Chars(event),
             [NoPTN EXCEPT !.title = <<"U", "F", "C">>,
                           !.year = PyInt(Chars(2024))],
             NoMatch, TRUE, <<>>, event)

FileNames == {MovieFile, EpisodeFile, SeasonFile, RegexFile, PlainFile,
              LeadYearFile, UfcFile(300), UfcFile(301)}

\* Classifier.__init__: self.info
new_info(file) ==
    [title |-> file.stem, year |-> PyNone, kind |-> "unsorted", genres |-> {},
     languages |-> {"english"}, season |-> PyNone, episode |-> PyNone,
     ufc |-> FALSE, rank |-> 0, media_dir |-> None,
     hdr |-> FALSE, dubbed |-> FALSE, threed |-> FALSE, remux |-> FALSE,
     cd |-> FALSE, resolution |-> None]

\* Classifier.extract_year
extract_year(info, file) ==
    IF file.lead # <<>> /\ file.lead \notin {<<"1", "0", "8", "0">>, <<"2", "1", "6", "0">>}
    THEN [info EXCEPT !.year = PyStr(file.lead)]
    ELSE info

\* Classifier.set_info_from_title
set_info_from_title(info, file) ==
    LET result == file.ptn
        i1 == IF truthy(result.year) THEN [info EXCEPT !.year = result.year]
              ELSE info
        i2 == IF result.title # <<>> THEN [i1 EXCEPT !.title = result.title]
              ELSE i1
        i3 == IF truthy(result.season) THEN [i2 EXCEPT !.kind = "series"] ELSE i2
        i4 == IF ~truthy(i3.year) /\ i3.kind # "series"
              THEN extract_year(i3, file) ELSE i3
    IN  [i4 EXCEPT !.hdr = file.tok.hdr, !.resolution = file.tok.resolution,
                   !.episode = result.episode, !.season = result.season]

\* Classifier.extract_info
extract_info(info, file) ==
    LET i1 == [info EXCEPT !.dubbed = file.tok.dubbed, !.threed = file.tok.threed,
                           !.cd = file.tok.cd, !.ufc = file.ufc,
                           !.remux = file.tok.remux]
        i2 == [i1 EXCEPT !.rank = rank_file(i1)]
        i3 == IF (~truthy(i2.season) \/ ~truthy(i2.episode)) /\ file.series.matched
              THEN [i2 EXCEPT !.kind = "series", !.season = file.series.season,
                              !.episode = file.series.episode]
              ELSE i2
    IN  IF i3.ufc
        THEN [i3 EXCEPT !.kind = "series", !.season = PyInt(Chars(1)),
                        !.episode = PyInt(Chars(1)), !.title = <<"U", "F", "C">>]
        ELSE i3

\* str.lower on the words of the catalog
lower(word) ==
    CASE word = "Drama" -> "drama" [] word = "Crime" -> "crime"
      [] word = "EN" -> "en" [] OTHER -> word

\* a merge that lets the catalog's set replace the parser's
replace_set(have, got) == IF got # {} THEN { lower(w) : w \in got } ELSE have

\* self.info["genres"] |= set(g.lower() for g in media["genres"])
union_set(have, got) == IF got # {} THEN have \cup { lower(w) : w \in got } ELSE have

\* classify, lines 215-227
merge_media(info, m) ==
    IF m = NoMedia THEN info
    ELSE [info EXCEPT
             !.kind = IF m.kind # "" THEN lower(m.kind) ELSE @,
             !.year = IF m.year # <<>> THEN PyInt(m.year) ELSE @,
             !.title = IF m.title # <<>> THEN m.title ELSE @,
             !.genres = union_set(@, m.genres),
             !.languages = union_set(@, m.languages)]

\* a classify that resolves every file
resolves_always(info) == TRUE

\* classify, line 212: if not self.info["ufc"]
resolves(info) == ~info.ufc

\* str(value) inside an f-string
fmt(value) == value.s

\* the key of collect_media_info as the f-string builds it
group_key(info) ==
    info.title \o <<"_">> \o fmt(info.year) \o <<"_", "S">> \o fmt(info.season)
        \o <<"_", "E">> \o fmt(info.episode)

\* the catalog records find_media may return
CatalogC == [title |-> <<>>, year |-> <<>>, kind |-> "series",
             genres |-> {"Drama", "Crime"}, languages |-> {"EN"}]
Found == {NoMedia, CatalogA, CatalogB, CatalogC}

NewClassifier(done) ==
    [pc |-> "start", file |-> MovieFile, info |-> new_info(MovieFile),
     parsed |-> new_info(MovieFile), found |-> NoMedia, lookups |-> 0,
     done |-> done]

InitClassify ==
    /\ cmd = "classify" /\ lib = "copies" /\ dry_run = FALSE /\ trashDepth = 0
    /\ Idle
    /\ probe = NewClassifier(<<>>)

\* Classifier(p): lines 41-84
ClassifyNew ==
    /\ cmd = "classify" /\ probe.pc = "start" /\ Len(probe.done) < MaxClassified
    /\ \E file \in FileNames :
          probe' = [probe EXCEPT !.pc = "parse", !.file = file,
                                 !.info = new_info(file),
                                 !.parsed = new_info(file)]
    /\ Frame

\* classify, lines 206-209
ClassifyParse ==
    /\ cmd = "classify" /\ probe.pc = "parse"
    /\ LET info == cleanup_title(extract_info(
                       set_info_from_title(probe.info, probe.file), probe.file))
       IN  probe' = [probe EXCEPT !.pc = "find", !.info = info, !.parsed = info]
    /\ Frame

\* classify, line 212; lookups counts the times find_media reaches the cache
ClassifyFind ==
    /\ cmd = "classify" /\ probe.pc = "find"
    /\ IF resolves(probe.info)
       THEN \E m \in Found :
               probe' = IF probe.info.title = <<>>
                        THEN [probe EXCEPT !.pc = "merge", !.found = NoMedia]
                        ELSE [probe EXCEPT !.pc = "merge", !.found = m,
                                           !.lookups = @ + 1]
       ELSE probe' = [probe EXCEPT !.pc = "merge", !.found = NoMedia]
    /\ Frame

\* classify, lines 215-234
ClassifyMerge ==
    /\ cmd = "classify" /\ probe.pc = "merge"
    /\ LET i1 == merge_media(probe.info, probe.found)
           info == [i1 EXCEPT !.media_dir = set_media_dir(i1)]
       IN  probe' = [probe EXCEPT
                        !.pc = "start", !.info = info,
                        !.done = Append(@, [file |-> probe.file,
                                            parsed |-> probe.parsed,
                                            found |-> probe.found,
                                            lookups |-> probe.lookups,
                                            info |-> info]),
                        !.lookups = 0]
    /\ Frame

NextClassify ==
    \/ ClassifyNew
    \/ ClassifyParse
    \/ ClassifyFind
    \/ ClassifyMerge

SpecClassify == InitClassify /\ [][NextClassify]_vars

(***************************************************************************)
(* Utils.move alone: one call, for every source and destination, on a      *)
(* small filesystem.  File 1 lies in the download directory; the directory *)
(* movies/a exists and holds file 2 and file 3, when present, under one    *)
(* stem, file 3 with the suffix _1.  A stem has no trailing digits or      *)
(* underscores, so new_unique_file only ever strips its own suffix.        *)
(***************************************************************************)
MovieDir == Path("movies", <<"a">>, FALSE, 0, 0)
Taken == Path("movies", <<"a">>, FALSE, 2, 0)
TakenToo == Path("movies", <<"a">>, FALSE, 2, 1)
Download(dir) == Path(DownloadRoot, dir, FALSE, 1, 0)
ProtectedRoots == { Path(r, <<>>, FALSE, 0, 0) : r \in MediaRoots \cup {DeletedRoot} }

\* the arguments of the call: a file path (or None) as src with any dst, and
\* a directory as src where move returns before it looks into src
MoveSources(fs) == {NoPath, fs[1], fs[2], Path(DownloadRoot, <<>>, FALSE, 4, 0)}
MoveDestinations(fs) ==
    ProtectedRoots \cup
    {NoPath, fs[1], Taken, MovieDir, Path("movies", <<"a">>, FALSE, 1, 0),
     replace_media_path(Taken, DeletedRoot), Path("movies", <<"@eadir">>, FALSE, 1, 0)}
MoveCalls(fs) ==
    (MoveSources(fs) \X MoveDestinations(fs)) \cup (ProtectedRoots \X ProtectedRoots)

NoCall == [src |-> NoPath, dst |-> NoPath, called |-> FALSE, raised |-> FALSE,
           before |-> [i \in FileIds |-> NoPath]]

InitMove ==
    /\ cmd = "move" /\ lib = "copies"
    /\ dry_run \in BOOLEAN
    /\ trashDepth \in 0..MaxTrash
    /\ pc = "scan" /\ files = <<>> /\ pool = <<>> /\ threads = <<>>
    /\ waitIdx = 0 /\ fi = 0 /\ media = <<>> /\ gi = 0 /\ ri = 0 /\ plan = <<>>
    /\ errors = {} /\ moved = {} /\ related = {} /\ exc = ""
    /\ cls = [i \in FileIds |-> NoInfo]
    /\ \E dir \in {<<>>, <<"@eadir">>}, two \in BOOLEAN, three \in BOOLEAN :
          loc = [i \in FileIds |->
                    IF i = 1 THEN Download(dir)
                    ELSE IF i = 2 /\ two THEN Taken
                    ELSE IF i = 3 /\ three THEN TakenToo
                    ELSE NoPath]
    /\ probe = NoCall

\* Utils.move(src, dst)
MoveCall ==
    /\ cmd = "move" /\ ~probe.called
    /\ \E call \in MoveCalls(loc) :
          LET res == Utils_move(loc, trashDepth, dry_run, call[1], call[2])
          IN  /\ loc' = res.fs
              /\ probe' = [src |-> call[1], dst |-> call[2], called |-> TRUE,
                           raised |-> res.raised, before |-> loc]
    /\ UNCHANGED <<cmd, lib, dry_run, trashDepth, pc, files, pool, threads,
                   waitIdx, fi, media, gi, ri, plan, errors, moved, related, exc,
                   cls>>

NextMove == MoveCall

SpecMove == InitMove /\ [][NextMove]_vars

(***************************************************************************)
(* The application lock of cli.py: every instance of the tool enters       *)
(* `with Utils.get_app_lock(): cli()`.  FileLock(lock_file, timeout=1)     *)
(* polls the lock file until it gets the lock or one second has passed,    *)
(* and then raises Timeout.                                                *)
(***************************************************************************)
\* instances of the tool started during one observation
MaxInstances == 3

\* polls of the lock file that fit into the timeout of one second
LockPolls == 2

Instances == 1..MaxInstances
NoHolder == 0

\* click leaves cli() with sys.exit: 0, or 1 and 2 on an error of the command
CliExitCodes == {0, 1, 2}

\* a lock that is granted whoever holds it
lock_free_always(holder) == TRUE

\* the lock file is held by no process
lock_free(holder) == holder = NoHolder

InitLock ==
    /\ cmd = "lock" /\ lib = "copies" /\ dry_run = FALSE /\ trashDepth = 0
    /\ Idle
    /\ probe = [holder |-> NoHolder,
                at |-> [i \in Instances |-> "off"],
                contended |-> [i \in Instances |-> FALSE],
                waited |-> [i \in Instances |-> 0],
                ran |-> [i \in Instances |-> FALSE],
                status |-> [i \in Instances |-> -1]]

\* python cli.py ...: the with statement calls FileLock.acquire
LockStart(i) ==
    /\ cmd = "lock" /\ probe.at[i] = "off"
    /\ probe' = [probe EXCEPT !.at[i] = "acquire",
                              !.contended[i] = ~lock_free(probe.holder)]
    /\ Frame

\* FileLock.acquire: the attempt succeeds, the body of the with statement starts
LockAcquire(i) ==
    /\ cmd = "lock" /\ probe.at[i] = "acquire"
    /\ lock_free(probe.holder)
    /\ probe' = [probe EXCEPT !.holder = i, !.at[i] = "cli"]
    /\ Frame

\* FileLock.acquire: the lock is held and the timeout has not passed, sleep
LockPoll(i) ==
    /\ cmd = "lock" /\ probe.at[i] = "acquire"
    /\ ~lock_free(probe.holder) /\ probe.waited[i] < LockPolls
    /\ probe' = [probe EXCEPT !.waited[i] = @ + 1]
    /\ Frame

\* FileLock.acquire raises Timeout; except Timeout: click.echo(...); exit(1)
LockTimeout(i) ==
    /\ cmd = "lock" /\ probe.at[i] = "acquire"
    /\ ~lock_free(probe.holder) /\ probe.waited[i] = LockPolls
    /\ probe' = [probe EXCEPT !.at[i] = "exited", !.status[i] = 1]
    /\ Frame

\* cli(): the command of this instance executes
RunCli(i) ==
    /\ cmd = "lock" /\ probe.at[i] = "cli" /\ ~probe.ran[i]
    /\ probe' = [probe EXCEPT !.ran[i] = TRUE]
    /\ Frame

\* cli() leaves with SystemExit, the with statement releases the lock
LockRelease(i) ==
    /\ cmd = "lock" /\ probe.at[i] = "cli" /\ probe.ran[i]
    /\ \E code \in CliExitCodes :
          probe' = [probe EXCEPT !.holder = IF @ = i THEN NoHolder ELSE @,
                                 !.at[i] = "exited", !.status[i] = code]
    /\ Frame

NextLock ==
    \E i \in Instances :
        \/ LockStart(i)
        \/ LockAcquire(i)
        \/ LockPoll(i)
        \/ LockTimeout(i)
        \/ RunCli(i)
        \/ LockRelease(i)

SpecLock == InitLock /\ [][NextLock]_vars

(***************************************************************************)
(* Classifier.set_media_dir alone, with documentary and language           *)
(* directories in the configuration.  info["languages"] is a Python set:   *)
(* the order in which `for lang in self.info["languages"]` visits it is    *)
(* fixed by the string hashes of the process, so every order is possible.  *)
(***************************************************************************)
\* the keys config.media_dirs must have, and the language keys it may have
RequiredDirs == {"movies", "series", "documentaries", "unsorted"}
LanguageNames == {"english", "arabic"}

\* config.media_dir(kind)
config_media_dir(conf, kind) ==
    IF kind \in conf \cup RequiredDirs THEN kind ELSE None

\* the orders in which a set can be iterated
Orders(set) ==
    { o \in [1..Cardinality(set) -> set] : \A i, j \in DOMAIN o : o[i] = o[j] => i = j }

\* the first language of the iteration that has a directory, else d
RECURSIVE first_lang_dir(_, _, _)
first_lang_dir(conf, order, d) ==
    IF order = <<>> THEN d
    ELSE IF config_media_dir(conf, Head(order)) # None
         THEN config_media_dir(conf, Head(order))
         ELSE first_lang_dir(conf, Tail(order), d)

\* Classifier.set_media_dir when the languages are iterated in this order
set_media_dir_in(info, conf, order) ==
    IF info.kind = "series" THEN config_media_dir(conf, "series")
    ELSE IF info.kind = "movie"
         THEN IF "documentary" \in info.genres
              THEN config_media_dir(conf, "documentaries")
              ELSE first_lang_dir(conf, order, config_media_dir(conf, "movies"))
         ELSE config_media_dir(conf, "movies")

InitMediaDir ==
    /\ cmd = "media_dir" /\ lib = "copies" /\ dry_run = FALSE /\ trashDepth = 0
    /\ Idle
    /\ \E kind \in {"series", "movie", "unsorted"},
          genres \in {{}, {"drama"}, {"documentary"}},
          languages \in SUBSET LanguageNames, conf \in SUBSET LanguageNames :
          probe = [info |-> [kind |-> kind, genres |-> genres,
                             languages |-> languages],
                   conf |-> conf, dirs |-> <<>>]

\* self.set_media_dir() of one more classification of the same record
SetMediaDir ==
    /\ cmd = "media_dir" /\ Len(probe.dirs) < 2
    /\ \E order \in Orders(probe.info.languages) :
          probe' = [probe EXCEPT
                       !.dirs = Append(@, set_media_dir_in(probe.info, probe.conf,
                                                           order))]
    /\ Frame

NextMediaDir == SetMediaDir

SpecMediaDir == InitMediaDir /\ [][NextMediaDir]_vars

(***************************************************************************)
(* Cleaner.collect_media_info over a configured directory list, followed   *)
(* by the loop of delete_low_quality.  The list is config.final_media_dirs:*)
(* the values of media_dirs, which may name one directory under two keys   *)
(* or a language directory that lies inside the movies directory.          *)
(***************************************************************************)
\* directories of the configuration; ArabicDir is /movies/arabic
ArabicDir == "arabic"
ConfiguredDirs == {"movies", "series", ArabicDir}

\* configured directories in the list of one run
MaxDirs == 2

\* glob of every entry of listdir(d): the files two or more levels below d
globbed(fs, d) ==
    { i \in DOMAIN fs :
        /\ fs[i] # NoPath /\ fs[i].dir # <<>>
        /\ fs[i].root = d \/ (d = "movies" /\ fs[i].root = ArabicDir) }

\* the paths of the files in the order the scan yields them
paths_of(fs, order) == [k \in DOMAIN order |-> fs[order[k]]]

\* the quality tokens in the names of the files: file 1 is a 1080p copy
FileTokens(second) ==
    [i \in FileIds |-> IF i = 1 THEN [NoTokens EXCEPT !.resolution = "1080p"]
                       ELSE IF i = 2 THEN second
                       ELSE [NoTokens EXCEPT !.resolution = "720p"]]

\* what the name of the file at path p parses to
parsed_name(p) == MovieA(probe.tok[p.name])

\* lines 96-105 over the whole files list
RECURSIVE group_all(_, _)
group_all(m, paths) ==
    IF paths = <<>> THEN m
    ELSE group_all(add_media(m, classify(Head(paths), parsed_name(Head(paths)))),
                   Tail(paths))

FrameButLoc ==
    UNCHANGED <<cmd, lib, dry_run, trashDepth, pc, files, pool, threads, waitIdx,
                fi, media, gi, ri, plan, errors, moved, related, exc, cls>>

InitCollect ==
    /\ cmd = "collect" /\ lib = "copies" /\ dry_run = FALSE
    /\ trashDepth \in 0..MaxTrash
    /\ pc = "scan" /\ files = <<>> /\ pool = <<>> /\ threads = <<>>
    /\ waitIdx = 0 /\ fi = 0 /\ media = <<>> /\ gi = 0 /\ ri = 0 /\ plan = <<>>
    /\ errors = {} /\ moved = {} /\ related = {} /\ exc = ""
    /\ cls = [i \in FileIds |-> NoInfo]
    /\ \E two \in {NoPath, Path("movies", <<"a", "2020">>, FALSE, 2, 0),
                   Path(ArabicDir, <<"a", "2020">>, FALSE, 2, 0)},
          three \in {NoPath, Path("movies", <<"a", "2020">>, FALSE, 3, 0)} :
          loc = [i \in FileIds |->
                    IF i = 1 THEN Path("movies", <<"a", "2020">>, FALSE, 1, 0)
                    ELSE IF i = 2 THEN two
                    ELSE IF i = 3 THEN three ELSE NoPath]
    /\ \E n \in 1..MaxDirs : \E dirs \in [1..n -> ConfiguredDirs] :
       \E second \in {[NoTokens EXCEPT !.resolution = "1080p"],
                      [NoTokens EXCEPT !.resolution = "720p"]} :
          probe = [at |-> "scan", run |-> 1, dirs |-> dirs, di |-> 1,
                   paths |-> <<>>, tok |-> FileTokens(second),
                   start |-> loc, media |-> <<>>, g |-> 1, i |-> 1,
                   acts |-> <<>>, deletes |-> <<>>]

\* lines 64-92: for d in self.dirs, one directory
CollectDir ==
    /\ cmd = "collect" /\ probe.at = "scan" /\ probe.di \in DOMAIN probe.dirs
    /\ \E order \in Orders(globbed(loc, probe.dirs[probe.di])) :
          probe' = [probe EXCEPT !.paths = @ \o paths_of(loc, order), !.di = @ + 1]
    /\ UNCHANGED loc
    /\ FrameButLoc

\* lines 94-105: the wait and the grouping
CollectGroup ==
    /\ cmd = "collect" /\ probe.at = "scan" /\ probe.di = Len(probe.dirs) + 1
    /\ probe' = [probe EXCEPT !.at = "rank", !.media = group_all(<<>>, probe.paths)]
    /\ UNCHANGED loc
    /\ FrameButLoc

\* delete_low_quality, lines 115-141: one record of the sorted group
CollectRank ==
    /\ cmd = "collect" /\ probe.at = "rank" /\ probe.g \in DOMAIN probe.media
    /\ LET s == sorted(probe.media[probe.g].recs)
           i == probe.i
       IN  IF i > Len(s)
           THEN /\ probe' = [probe EXCEPT !.g = @ + 1, !.i = 1]
                /\ UNCHANGED loc
           ELSE LET r == s[i]
                    act == IF keep_pos(i) THEN "keep"
                           ELSE IF demote_pos(i) THEN "demote" ELSE "delete"
                    new_path ==
                        IF act = "keep" /\ in_extras(r.old_path)
                        THEN dirname(dirname(r.old_path))
                        ELSE IF act = "demote" /\ ~in_extras(r.old_path)
                        THEN join_basename(extras_dir(r.new_dir), r.old_path)
                        ELSE NoPath
                IN  /\ probe' = [probe EXCEPT
                                    !.i = @ + 1,
                                    !.acts = Append(@, [act |-> act,
                                                        path |-> r.old_path]),
                                    !.deletes = IF act = "delete"
                                                THEN Append(@, r.old_path) ELSE @]
                    /\ loc' = IF new_path # NoPath
                              THEN Utils_move(loc, trashDepth, dry_run, r.old_path,
                                              new_path).fs
                              ELSE loc
    /\ FrameButLoc

\* a worker of the pool runs the next Utils.delete
CollectDelete ==
    /\ cmd = "collect" /\ probe.deletes # <<>>
    /\ loc' = Utils_delete(loc, trashDepth, dry_run, Head(probe.deletes))
    /\ probe' = [probe EXCEPT !.deletes = Tail(@)]
    /\ FrameButLoc

\* the pass has returned and its delete tasks have run
PassOver ==
    probe.at = "rank" /\ probe.g = Len(probe.media) + 1 /\ probe.deletes = <<>>

\* the tool is run again: Cleaner(config.final_media_dirs) on the library as
\* the first run left it
CollectAgain ==
    /\ cmd = "collect" /\ probe.run = 1 /\ PassOver
    /\ probe' = [probe EXCEPT !.at = "scan", !.run = 2, !.di = 1, !.paths = <<>>,
                              !.start = loc, !.media = <<>>, !.g = 1, !.i = 1,
                              !.acts = <<>>]
    /\ UNCHANGED loc
    /\ FrameButLoc

NextCollect ==
    \/ CollectDir
    \/ CollectGroup
    \/ CollectRank
    \/ CollectDelete
    \/ CollectAgain

SpecCollect == InitCollect /\ [][NextCollect]_vars

(***************************************************************************)
(* Utils.move of a directory (lines 111-120): every entry of src is moved  *)
(* by a call of its own, then src is moved as a whole if dst does not      *)
(* exist, and what is left of src is removed with shutil.rmtree.  A disk   *)
(* is its files (fs) and its directories (dirs).                           *)
(***************************************************************************)
Dir(root, dir) == Path(root, dir, FALSE, 0, 0)

\* path p lies in or below directory d
below(p, d) ==
    /\ p # NoPath /\ p.root = d.root
    /\ Len(p.dir) >= Len(d.dir) /\ SubSeq(p.dir, 1, Len(d.dir)) = d.dir

\* os.path.join(dst, <path of p relative to src>)
rebase(p, src, dst) ==
    [p EXCEPT !.root = dst.root,
              !.dir = dst.dir \o SubSeq(p.dir, Len(src.dir) + 1, Len(p.dir))]

\* os.listdir(src): the files and the directories directly in src
listdir(disk, src) ==
    { disk.fs[i] : i \in { j \in DOMAIN disk.fs :
                             /\ disk.fs[j] # NoPath /\ disk.fs[j].root = src.root
                             /\ disk.fs[j].dir = src.dir } }
    \cup { d \in disk.dirs : /\ below(d, src) /\ Len(d.dir) = Len(src.dir) + 1 }

\* shutil.rmtree(src, ignore_errors=True)
rmtree(disk, src) ==
    [fs |-> [i \in DOMAIN disk.fs |->
                IF below(disk.fs[i], src) THEN NoPath ELSE disk.fs[i]],
     dirs |-> { d \in disk.dirs : ~below(d, src) }]

\* shutil.move(src, dst) of a directory to a path that does not exist
rename_dir(disk, src, dst) ==
    [fs |-> [i \in DOMAIN disk.fs |->
                IF below(disk.fs[i], src) THEN rebase(disk.fs[i], src, dst)
                ELSE disk.fs[i]],
     dirs |-> { IF below(d, src) THEN rebase(d, src, dst) ELSE d : d \in disk.dirs }]

\* lines 118-119: if os.path.exists(src): shutil.rmtree(src, ignore_errors=True)
remove_rest(disk, src) == IF src \in disk.dirs THEN rmtree(disk, src) ELSE disk

\* Utils.move(src, dst) for a file or a directory src; fails are the files
\* whose shutil.move raises, which move logs and swallows.  The entries of a
\* directory go to destinations of their own, in any order.
RECURSIVE move_tree(_, _, _, _, _, _)
RECURSIVE move_entries(_, _, _, _, _, _, _)
move_entries(disk, td, dry, entries, src, dst, fails) ==
    IF entries = {} THEN disk
    ELSE LET f == CHOOSE e \in entries : TRUE
             after == move_tree(disk, td, dry, f, rebase(f, src, dst), fails)
         IN  move_entries(after, td, dry, entries \ {f}, src, dst, fails)

move_tree(disk, td, dry, src, dst, fails) ==
    IF src = dst \/ src = NoPath \/ dst = NoPath THEN disk
    ELSE IF in_eadir(src) \/ in_eadir(dst) THEN disk
    ELSE IF is_protected(dst) THEN disk
    ELSE IF dry THEN disk
    ELSE LET made == [disk EXCEPT !.dirs = @ \cup {dirname(dst)}]
         IN  IF isfile(src)
             THEN IF \E i \in fails : disk.fs[i] = src THEN made
                  ELSE [made EXCEPT !.fs = Utils_move(@, td, dry, src, dst).fs]
             ELSE IF src \in disk.dirs
             THEN LET moved_entries == move_entries(made, td, dry, listdir(made, src),
                                                    src, dst, fails)
                      whole == IF src \in moved_entries.dirs /\ dst \notin moved_entries.dirs
                               THEN rename_dir(moved_entries, src, dst)
                               ELSE moved_entries
                  IN  remove_rest(whole, src)
             ELSE made

SourceDir == Dir("movies", <<"a">>)
\* Utils.delete(src), and a move to another directory of the library
TargetDirs == {Dir(DeletedRoot, <<"a">>), Dir("movies", <<"b">>)}

\* the directories in which the files of fs lie
RECURSIVE parents(_)
parents(p) ==
    IF p.name # 0 THEN parents(dirname(p))
    ELSE IF p.dir = <<>> THEN {}
    ELSE {p} \cup parents([p EXCEPT !.dir = SubSeq(@, 1, Len(@) - 1)])

dirs_of(fs) == UNION { parents(fs[i]) : i \in OnDiskIds(fs) }

InitMoveDir ==
    /\ cmd = "move_dir" /\ lib = "copies"
    /\ dry_run \in BOOLEAN
    /\ trashDepth = 0
    /\ pc = "scan" /\ files = <<>> /\ pool = <<>> /\ threads = <<>>
    /\ waitIdx = 0 /\ fi = 0 /\ media = <<>> /\ gi = 0 /\ ri = 0 /\ plan = <<>>
    /\ errors = {} /\ moved = {} /\ related = {} /\ exc = ""
    /\ cls = [i \in FileIds |-> NoInfo]
    /\ \E two \in BOOLEAN, three \in BOOLEAN, four \in BOOLEAN :
          loc = [i \in FileIds |->
                    IF i = 1 THEN Path("movies", <<"a">>, FALSE, 1, 0)
                    ELSE IF i = 2 /\ two THEN Path("movies", <<"a">>, FALSE, 2, 0)
                    ELSE IF i = 3 /\ three
                    THEN Path("movies", <<"a", "@eadir">>, FALSE, 3, 0)
                    ELSE IF i = 4 /\ four
                    THEN Path("movies", <<"a", "sub">>, FALSE, 4, 0)
                    ELSE NoPath]
    /\ \E dst \in TargetDirs, there \in BOOLEAN, fails \in SUBSET {1, 2, 4} :
          probe = [src |-> SourceDir, dst |-> dst, fails |-> fails,
                   dirs |-> dirs_of(loc) \cup (IF there THEN {dst} ELSE {}),
                   called |-> FALSE, before |-> loc]

\* Utils.move(src, dst) with a directory as src
MoveDir ==
    /\ cmd = "move_dir" /\ ~probe.called
    /\ LET disk == move_tree([fs |-> loc, dirs |-> probe.dirs], trashDepth, dry_run,
                             probe.src, probe.dst, probe.fails)
       IN  /\ loc' = disk.fs
           /\ probe' = [probe EXCEPT !.called = TRUE, !.dirs = disk.dirs]
    /\ FrameButLoc

NextMoveDir == MoveDir

SpecMoveDir == InitMoveDir /\ [][NextMoveDir]_vars

(***************************************************************************)
(* Utils.move tasks on the worker pool (Sorter.sort, flatten_one_level).   *)
(* A task first tests its destination (lines 92-93) and later calls        *)
(* shutil.move (line 105); tasks of other workers run between the two.     *)
(* Every source has the same file name, in a directory of its own.         *)
(***************************************************************************)
\* Utils.move tasks submitted to the pool
MaxMovers == 3

Movers == 1..MaxMovers
\* the file that may lie at a destination before the tasks start
Resident == MaxMovers + 1

MoverSource(k) == Path(DownloadRoot, <<ToString(k)>>, FALSE, 1, 0)
Destinations == {Path("movies", <<"a", "2020">>, FALSE, 1, 0),
                 Path("movies", <<"b", "2021">>, FALSE, 1, 0)}

\* shutil.move of a file to a file path: os.rename replaces a file at dst
rename_over(fs, src, dst) ==
    [i \in DOMAIN fs |-> IF fs[i] = src THEN dst
                         ELSE IF fs[i] = dst THEN NoPath ELSE fs[i]]

InitRace ==
    /\ cmd = "race" /\ lib = "copies" /\ dry_run = FALSE /\ trashDepth = 0
    /\ pc = "scan" /\ files = <<>> /\ pool = <<>> /\ threads = <<>>
    /\ waitIdx = 0 /\ fi = 0 /\ media = <<>> /\ gi = 0 /\ ri = 0 /\ plan = <<>>
    /\ errors = {} /\ moved = {} /\ related = {} /\ exc = ""
    /\ cls = [i \in FileIds |-> NoInfo]
    /\ \E resident \in Destinations \cup {NoPath} :
          loc = [i \in FileIds |-> IF i \in Movers THEN MoverSource(i)
                                   ELSE IF i = Resident THEN resident ELSE NoPath]
    /\ \E dst \in [Movers -> Destinations] :
          probe = [at |-> [k \in Movers |-> "queued"], dst |-> dst,
                   before |-> loc]

\* lines 79-97 of one task: the tests, and the fresh name if dst is a file
RaceCheck(k) ==
    /\ cmd = "race" /\ probe.at[k] = "queued"
    /\ Cardinality({ j \in Movers : probe.at[j] = "checked" }) < PoolWidth
    /\ LET dst == probe.dst[k]
           dst1 == IF exists(loc, trashDepth, dst) /\ isfile(dst)
                   THEN new_unique_file(loc, trashDepth, dirname(dst), dst)
                   ELSE dst
       IN  probe' = [probe EXCEPT !.at[k] = "checked", !.dst[k] = dst1]
    /\ UNCHANGED loc
    /\ FrameButLoc

\* lines 103-106 of one task: shutil.move(src, dst)
RaceMove(k) ==
    /\ cmd = "race" /\ probe.at[k] = "checked"
    /\ loc' = rename_over(loc, MoverSource(k), probe.dst[k])
    /\ probe' = [probe EXCEPT !.at[k] = "done"]
    /\ FrameButLoc

NextRace == \E k \in Movers : RaceCheck(k) \/ RaceMove(k)

SpecRace == InitRace /\ [][NextRace]_vars

(***************************************************************************)
(* TraktClient: initialize, ensure_valid_token, authenticate and the       *)
(* callbacks of the device poller, which runs in a thread of its own.      *)
(* is_authenticating is a threading.Condition; Condition.wait() without a  *)
(* timeout returns True whoever notified it.                               *)
(***************************************************************************)
\* poll events of the device poller before it ends
MaxAuthPolls == 3

\* what .auth.pkl holds: nothing, a token in its lifetime, a token past it,
\* bytes that pickle cannot load
AuthFiles == {"none", "valid", "stale", "unreadable"}
PollerEnds == {"authenticated", "aborted", "expired"}

\* Condition.wait(): True when notified
wait_result(ending) == TRUE

InitTrakt ==
    /\ cmd = "trakt" /\ lib = "copies" /\ dry_run = FALSE /\ trashDepth = 0
    /\ Idle
    /\ \E file \in AuthFiles :
          probe = [at |-> "auth_load", file |-> file, authorization |-> "none",
                   lock |-> "free", poller |-> "off", polls |-> 0,
                   returned |-> "unset", initialize |-> "running",
                   used |-> "unset"]

\* initialize: self.auth_load()
TraktAuthLoad ==
    /\ cmd = "trakt" /\ probe.at = "auth_load"
    /\ probe' = [probe EXCEPT !.at = "ensure",
                              !.authorization = IF probe.file = "unreadable"
                                                THEN "none" ELSE probe.file]
    /\ Frame

\* ensure_valid_token up to its return or its call of authenticate
TraktEnsure ==
    /\ cmd = "trakt" /\ probe.at = "ensure"
    /\ IF probe.authorization = "none"
       THEN probe' = [probe EXCEPT !.at = "authenticate"]
       ELSE IF probe.authorization = "stale"
       THEN \E refreshed \in BOOLEAN :
               probe' = IF refreshed
                        THEN [probe EXCEPT !.at = "ensured", !.returned = "True",
                                           !.authorization = "valid",
                                           !.file = "valid"]
                        ELSE [probe EXCEPT !.at = "authenticate",
                                           !.authorization = "none",
                                           !.file = "none"]
       ELSE probe' = [probe EXCEPT !.at = "ensured", !.returned = "True"]
    /\ Frame

\* authenticate, lines 189-215: the lock taken without blocking, the poller started
TraktAuthenticate ==
    /\ cmd = "trakt" /\ probe.at = "authenticate"
    /\ probe' = IF probe.lock \in {"free", "main"}
                THEN [probe EXCEPT !.at = "wait", !.lock = "main",
                                   !.poller = "polling", !.polls = 0]
                ELSE [probe EXCEPT !.at = "ensured", !.returned = "False"]
    /\ Frame

\* authenticate, line 218: is_authenticating.wait() releases the lock and blocks
TraktWait ==
    /\ cmd = "trakt" /\ probe.at = "wait"
    /\ probe' = [probe EXCEPT !.at = "blocked", !.lock = "free"]
    /\ Frame

\* on_poll: callback(True)
TraktOnPoll ==
    /\ cmd = "trakt" /\ probe.poller = "polling" /\ probe.polls < MaxAuthPolls
    /\ probe' = [probe EXCEPT !.polls = @ + 1]
    /\ Frame

\* on_authenticated, on_aborted, on_expired: acquire, (store), notify_all, release
TraktOnEnd ==
    /\ cmd = "trakt" /\ probe.poller = "polling" /\ probe.lock = "free"
    /\ \E ending \in PollerEnds :
          probe' = [probe EXCEPT
                       !.poller = ending,
                       !.authorization = IF ending = "authenticated"
                                         THEN "valid" ELSE @,
                       !.file = IF ending = "authenticated" THEN "valid" ELSE @]
    /\ Frame

\* wait() returns in authenticate, which returns its value through
\* ensure_valid_token
TraktWake ==
    /\ cmd = "trakt" /\ probe.at = "blocked" /\ probe.poller \in PollerEnds
    /\ probe.lock = "free"
    /\ probe' = [probe EXCEPT
                    !.at = "ensured", !.lock = "main",
                    !.returned = IF wait_result(probe.poller) THEN "True"
                                 ELSE "False"]
    /\ Frame

\* initialize, lines 225-226: if not self.ensure_valid_token(): raise
TraktInitialized ==
    /\ cmd = "trakt" /\ probe.at = "ensured" /\ probe.initialize = "running"
    /\ probe' = IF probe.returned = "True"
                THEN [probe EXCEPT !.at = "ready", !.initialize = "done"]
                ELSE [probe EXCEPT !.at = "failed", !.initialize = "raised"]
    /\ Frame

\* watched_movies: ensure_valid_token is called again
TraktCall ==
    /\ cmd = "trakt" /\ probe.at = "ready"
    /\ probe' = [probe EXCEPT !.at = "ensure", !.returned = "unset"]
    /\ Frame

\* watched_movies, line 259: oauth.from_response(self.authorization, ...)
TraktUse ==
    /\ cmd = "trakt" /\ probe.at = "ensured" /\ probe.initialize = "done"
    /\ probe' = IF probe.returned = "True"
                THEN [probe EXCEPT !.at = "called", !.used = probe.authorization]
                ELSE [probe EXCEPT !.at = "called"]
    /\ Frame

NextTrakt ==
    \/ TraktAuthLoad
    \/ TraktEnsure
    \/ TraktAuthenticate
    \/ TraktWait
    \/ TraktOnPoll
    \/ TraktOnEnd
    \/ TraktWake
    \/ TraktInitialized
    \/ TraktCall
    \/ TraktUse

SpecTrakt == InitTrakt /\ [][NextTrakt]_vars

(***************************************************************************)
(* Properties                                                              *)
(***************************************************************************)
Min(a, b) == IF a < b THEN a ELSE b
Max(a, b) == IF a > b THEN a ELSE b

\* the log lines of group g, and how many of them say act
PlanFor(g) == { k \in DOMAIN plan : plan[k].g = g }
NumAct(g, act) == Cardinality({ k \in PlanFor(g) : plan[k].act = act })

\* the loop of delete_low_quality has been through every record of group g
Processed(g) == g \in DOMAIN media /\ Cardinality(PlanFor(g)) = Len(media[g].recs)

\* the delete tasks handed to the pool
DeleteTasks == { t \in DOMAIN pool : pool[t].fn = "delete" }

\* the place of a path in the order of discovery (the files list)
Discovered(path) == CHOOSE k \in DOMAIN files : files[k] = path.name

\* C1 as stated in the specification: for every processed group of size N,
\* exactly 1 record is kept, min(N-1, 2) are demoted and max(N-4, 0) are deleted.
C1_CountsAsStated ==
    \A g \in DOMAIN media : Processed(g) =>
        LET N == Len(media[g].recs)
        IN  /\ NumAct(g, "keep") = 1
            /\ NumAct(g, "demote") = Min(N - 1, 2)
            /\ NumAct(g, "delete") = Max(N - 4, 0)

\* C1, amended: for every processed group of size N, exactly 1 record is kept,
\* min(N-1, 2) are demoted and max(N-3, 0) are deleted.
C1_Counts ==
    \A g \in DOMAIN media : Processed(g) =>
        LET N == Len(media[g].recs)
        IN  /\ NumAct(g, "keep") = 1
            /\ NumAct(g, "demote") = Min(N - 1, 2)
            /\ NumAct(g, "delete") = Max(N - 3, 0)

C1_Witness ==
    /\ pc = "done"
    /\ \E g \in DOMAIN media :
          Processed(g) /\ Len(media[g].recs) = 5 /\ NumAct(g, "delete") = 2

\* the ranks of a sequence of records
RanksOf(recs) == [j \in DOMAIN recs |-> recs[j].rank]

\* the log line written for position i of group g
ActAt(g, i) == plan[CHOOSE k \in PlanFor(g) : plan[k].i = i].act

\* C2: in a group sorted by rank descending, every record at position >= 4 is
\* handed to the soft delete and no record at position <= 3 ever is; ranks
\* [130, 80, 80, -50, -50] keep the 130, demote both 80s, delete both -50s.
C2_FourthOnwardDeleted ==
    /\ \A t \in DeleteTasks :
          \E g \in DOMAIN media : \E j \in DOMAIN media[g].recs :
              media[g].recs[j].old_path = pool[t].path
    /\ \A g \in DOMAIN media :
          LET s == sorted(media[g].recs)
              handed(i) == \E t \in DeleteTasks : pool[t].path = s[i].old_path
          IN  /\ \A i \in DOMAIN s : handed(i) => i >= 4
              /\ Processed(g) => \A i \in DOMAIN s : i >= 4 => handed(i)
              /\ (Processed(g) /\ RanksOf(s) = <<130, 80, 80, -50, -50>>) =>
                    /\ ActAt(g, 1) = "keep"
                    /\ ActAt(g, 2) = "demote" /\ ActAt(g, 3) = "demote"
                    /\ ActAt(g, 4) = "delete" /\ ActAt(g, 5) = "delete"

C2_Witness ==
    /\ pc = "done"
    /\ \E g \in DOMAIN media :
          /\ Processed(g)
          /\ RanksOf(sorted(media[g].recs)) = <<130, 80, 80, -50, -50>>
          /\ RanksOf(media[g].recs) # RanksOf(sorted(media[g].recs))
          /\ Cardinality(DeleteTasks) = 2

\* C3: in every group exactly one record is treated as kept, and its rank is
\* greater than or equal to the rank of every other record of the group.
C3_KeptIsTop ==
    /\ \A k1, k2 \in DOMAIN plan : plan[k1].path = plan[k2].path => k1 = k2
    /\ \A g \in DOMAIN media :
          /\ NumAct(g, "keep") = (IF PlanFor(g) = {} THEN 0 ELSE 1)
          /\ \A k \in PlanFor(g) : plan[k].act = "keep" =>
                /\ \E j \in DOMAIN media[g].recs :
                      media[g].recs[j].old_path = plan[k].path
                /\ \A j \in DOMAIN media[g].recs :
                      plan[k].rank >= media[g].recs[j].rank

C3_Witness ==
    /\ pc = "done"
    /\ \E g \in DOMAIN media : \E k \in PlanFor(g) :
          /\ Processed(g) /\ Len(media[g].recs) >= 3
          /\ plan[k].act = "keep" /\ Discovered(plan[k].path) = 3
          /\ \A j \in DOMAIN media[g].recs :
                media[g].recs[j].old_path # plan[k].path =>
                    media[g].recs[j].rank < plan[k].rank

\* C4: no keep/demote/delete decision is made, and grouping and ranking do
\* not start, while a classification task of the scan is pending or running.
C4_BarrierBeforeDecisions ==
    (pc \in {"group", "rank", "done"} \/ media # <<>> \/ plan # <<>>) =>
        \A t \in DOMAIN pool :
            pool[t].fn = "classify" => pool[t].st \notin {"pending", "running"}

C4_Witness ==
    /\ plan # <<>>
    /\ Cardinality({ t \in DOMAIN pool : pool[t].fn = "classify" }) >= 3

Weight(present, w) == IF present THEN w ELSE 0

\* C6: rank_file is additive: the rank is the sum of HDR +100, dubbed +90,
\* 3D +80, remux +50, 2160p +40, 1080p +30, CD +10 and -50 for a resolution
\* among 720p/480p/360p/240p/144p; no signal gives 0.
C6_RankAdditive ==
    probe.ranked =>
        /\ probe.rank =
              Weight(probe.info.hdr, 100) + Weight(probe.info.dubbed, 90)
              + Weight(probe.info.threed, 80) + Weight(probe.info.remux, 50)
              + Weight(probe.info.resolution = "2160p", 40)
              + Weight(probe.info.resolution = "1080p", 30)
              + Weight(probe.info.cd, 10)
              + Weight(probe.info.resolution \in
                           {"720p", "480p", "360p", "240p", "144p"}, -50)
        /\ (probe.info \in {NoTokens, [NoTokens EXCEPT !.resolution = "576p"]}
               => probe.rank = 0)

C6_Witness ==
    /\ probe.ranked
    /\ probe.info = [hdr |-> TRUE, dubbed |-> TRUE, threed |-> TRUE,
                     remux |-> TRUE, cd |-> TRUE, resolution |-> "720p"]
    /\ probe.rank = 280

\* C7: a group of exactly one record has no demotion and no deletion, whatever
\* the sign of its rank: the record is never moved into an extras directory
\* and never soft-deleted.
C7_SingleIsKept ==
    \A g \in DOMAIN media : Len(media[g].recs) = 1 =>
        LET r == media[g].recs[1]
        IN  /\ \A k \in PlanFor(g) : plan[k].act = "keep"
            /\ \A t \in DeleteTasks : pool[t].path # r.old_path
            /\ loc[r.old_path.name].root = r.old_path.root
            /\ in_extras(loc[r.old_path.name]) => in_extras(r.old_path)

C7_Witness ==
    /\ pc = "done"
    /\ \E g \in DOMAIN media :
          /\ Len(media[g].recs) = 1 /\ media[g].recs[1].rank < 0
          /\ Processed(g)
    /\ \E g \in DOMAIN media :
          /\ Len(media[g].recs) = 1 /\ media[g].recs[1].rank > 0
          /\ Processed(g)

\* C8: two records of a group with equal rank keep their order of discovery
\* after the sort, so discovery order alone decides which of them is kept,
\* demoted or deleted.
C8_TiesKeepDiscoveryOrder ==
    /\ \A g \in DOMAIN media :
          LET s == sorted(media[g].recs)
          IN  \A i, j \in DOMAIN s :
                  (i < j /\ s[i].rank = s[j].rank) =>
                      Discovered(s[i].old_path) < Discovered(s[j].old_path)
    /\ \A k1, k2 \in DOMAIN plan :
          ( /\ plan[k1].g = plan[k2].g /\ plan[k1].rank = plan[k2].rank
            /\ Discovered(plan[k1].path) < Discovered(plan[k2].path) )
          => plan[k1].i < plan[k2].i

C8_Witness ==
    /\ pc = "done"
    /\ \E k1, k2 \in DOMAIN plan :
          /\ plan[k1].g = plan[k2].g /\ plan[k1].rank = plan[k2].rank
          /\ plan[k1].act = "demote" /\ plan[k2].act = "delete"
          /\ \E k3 \in DOMAIN plan :
                /\ plan[k3].g = plan[k1].g /\ plan[k3].rank > plan[k1].rank
                /\ Discovered(plan[k3].path) > Discovered(plan[k2].path)

\* C9: a file for which no title can be derived is reported as an error and
\* left untouched: it is in no duplicate group and no move, demote or delete
\* is issued for it, in the sort pass and in the duplicate pass.
C9_UntitledUntouched ==
    /\ \A g \in DOMAIN media : \A j \in DOMAIN media[g].recs :
          media[g].recs[j].title # ""
    /\ \A id \in FileIds : cls[id].title = "" =>
          /\ \E e \in errors : e.id = id
          /\ loc[id] = cls[id].old_path
          /\ id \notin moved \cup related
          /\ \A k \in DOMAIN plan : plan[k].path # cls[id].old_path
          /\ \A t \in DeleteTasks : pool[t].path # cls[id].old_path

C9_Witness ==
    /\ cmd = "clean" /\ pc = "done" /\ plan # <<>>
    /\ \E id \in FileIds : cls[id].title = "" /\ in_extras(cls[id].old_path)

\* the run is over: the main thread has left and the pool is idle
Ended == pc \in {"done", "crashed"} /\ Unfinished = {}

\* the classification of file id raised
Failed(id) ==
    \/ \E t \in DOMAIN pool :
          pool[t].fn = "classify" /\ pool[t].id = id /\ pool[t].st = "raised"
    \/ exc = "classify" /\ fi \in DOMAIN files /\ files[fi] = id

\* file id was classified and grouped, moved or reported
Handled(id) == cls[id] # NoInfo \/ \E e \in errors : e.id = id

\* C10: an exception raised while classifying one file is isolated to that
\* file: every other file of the batch is still classified and processed, in
\* Sorter.sort and in Cleaner.collect_media_info.
C10_FailureIsolated ==
    (Ended /\ exc # "move") =>
        \A k \in DOMAIN files : Failed(files[k]) \/ Handled(files[k])

\* the provider answered every call of the query with a rate-limit error
AllRateLimited == probe.calls > 0 /\ probe.failed = probe.calls

\* C11: find_media never calls the provider when the cache holds an entry
\* under the query key ("{title} {year}" with a year, "{title}" without): it
\* returns the cached record unchanged; the provider is called only on a miss.
C11_CacheHitNoProvider ==
    /\ cmd = "find"
    /\ probe.calls > 0 =>
          probe.looked /\ probe.cache0[query_key(probe.info)] = NoMedia
    /\ (probe.looked /\ probe.cache0[query_key(probe.info)] # NoMedia) =>
          /\ probe.pc = "return" /\ probe.calls = 0
          /\ probe.media = probe.cache0[query_key(probe.info)]
          /\ probe.cache = probe.cache0

C11_Witness ==
    /\ probe.pc = "return" /\ probe.queries = 2 /\ probe.looked
    /\ probe.info = [title |-> <<"a">>, year |-> Year2020]
    /\ probe.media = CatalogB /\ probe.calls = 0

\* C12 as stated: when every provider call of a query fails with 429, 503 or
\* 403, the number of attempts never exceeds 5 and the resolution ends with
\* None.
C12_AtMostFiveAttempts ==
    /\ cmd = "find"
    /\ probe.calls <= MAX_RETRIES
    /\ (AllRateLimited /\ probe.pc \in {"set", "return"}) => probe.media = NoMedia

\* C12, amended: tmdb makes at most 1 + MAX_RETRIES = 6 attempts for a query;
\* when every one fails with 429, 503 or 403 it sleeps 0, 1, 2, 3, 4 seconds
\* between them and after the sixth ends with None, without raising.
C12_BoundedRetries ==
    /\ cmd = "find"
    /\ probe.calls <= MAX_RETRIES + 1
    /\ probe.failed <= probe.calls
    /\ \A k \in DOMAIN probe.slept : probe.slept[k] = k - 1
    /\ AllRateLimited =>
          /\ Len(probe.slept) = (IF probe.pc = "tmdb" THEN probe.calls
                                 ELSE probe.calls - 1)
          /\ probe.pc \in {"set", "return"} =>
                /\ probe.calls = MAX_RETRIES + 1
                /\ probe.media = NoMedia
                /\ probe.cache = probe.cache0

C12_Witness ==
    /\ probe.pc = "return" /\ AllRateLimited
    /\ probe.calls = 6 /\ probe.slept = <<0, 1, 2, 3, 4>> /\ probe.media = NoMedia

\* C18: title normalization is idempotent: applying cleanup_title to the
\* record a first application produced leaves the title unchanged, also for
\* titles with several SxxEyy patterns or several 4-digit tokens.
C18_CleanupIdempotent ==
    /\ cmd = "title"
    /\ probe.applied = 2 => probe.info.title = probe.once.title

\* the records classify has returned
Classified == { probe.done[k] : k \in DOMAIN probe.done }

\* C13: for a file whose name starts with 'ufc', classify forces kind = series
\* and season = 1 and resolves no metadata: neither the cache nor the provider
\* is consulted for that file.
C13_SportBypassesResolver ==
    /\ cmd = "classify"
    /\ \A r \in Classified : r.file.ufc =>
          /\ r.info.kind = "series" /\ r.info.season = PyInt(<<"1">>)
          /\ r.lookups = 0 /\ r.found = NoMedia
    /\ (probe.pc \in {"find", "merge"} /\ probe.file.ufc) => probe.lookups = 0

C13_Witness ==
    \E r1, r2 \in Classified :
        /\ r1.file.ufc /\ r1.file.event = 300
        /\ ~r2.file.ufc /\ r2.lookups = 1 /\ r2.found = CatalogA

\* C14: when resolution returns a catalog record, each non-empty catalog
\* title, year and kind replaces the parser's value, and genres and languages
\* are the union of the parser's sets and the lower-cased catalog sets: nothing
\* present before the merge, the default 'english' included, is removed.
C14_MergeUnions ==
    /\ cmd = "classify"
    /\ \A r \in Classified :
          LET m == r.found
          IN  /\ r.info.title = (IF m.title # <<>> THEN m.title ELSE r.parsed.title)
              /\ r.info.year = (IF m.year # <<>> THEN PyInt(m.year)
                                ELSE r.parsed.year)
              /\ r.info.kind = (IF m.kind # "" THEN lower(m.kind)
                                ELSE r.parsed.kind)
              /\ r.info.genres =
                    r.parsed.genres \cup { lower(g) : g \in m.genres }
              /\ r.info.languages =
                    r.parsed.languages \cup { lower(l) : l \in m.languages }
              /\ "english" \in r.info.languages

C14_Witness ==
    \E r \in Classified :
        /\ r.found = CatalogC /\ r.parsed.kind = "unsorted"
        /\ r.info.title = <<"c">> /\ r.info.kind = "series"
        /\ r.info.genres = {"drama", "crime"}
        /\ r.info.languages = {"english", "en"}

\* C19: every record classify returns with kind = series has a season and an
\* episode, whether the kind came from the structured parser, the fallback
\* regex, the sport-event rule or the catalog.
C19_SeriesHasSeasonAndEpisode ==
    /\ cmd = "classify"
    /\ \A r \in Classified : r.info.kind = "series" =>
          r.info.season # PyNone /\ r.info.episode # PyNone

\* C20: two sport-event files with different event numbers get different
\* episodes and so different duplicate-group keys.
C20_SportEventsApart ==
    /\ cmd = "classify"
    /\ \A r1, r2 \in Classified :
          (r1.file.ufc /\ r2.file.ufc /\ r1.file.event # r2.file.event) =>
              /\ r1.info.episode # r2.info.episode
              /\ group_key(r1.info) # group_key(r2.info)

\* the files that are on the disk
OnDisk(fs) == { i \in DOMAIN fs : fs[i] # NoPath }

\* C15 as stated: Utils.move(src, dst) with a protected root as dst raises and
\* leaves the filesystem unchanged, for every src.
C15_ProtectedRaises ==
    /\ cmd = "move"
    /\ (probe.called /\ probe.dst \in ProtectedRoots) =>
          probe.raised /\ loc = probe.before

\* C15, amended: Utils.move(src, dst) with a protected root as dst never moves
\* anything; it raises, except that it returns silently when src equals dst
\* or src is an '@eadir' path.
C15_ProtectedRefused ==
    /\ cmd = "move"
    /\ (probe.called /\ probe.dst \in ProtectedRoots) =>
          /\ loc = probe.before
          /\ probe.raised <=> ~(probe.src = probe.dst \/ in_eadir(probe.src))

C15_Witness ==
    /\ probe.called /\ probe.dst \in ProtectedRoots /\ ~dry_run
    /\ probe.src = probe.before[1] /\ ~in_eadir(probe.src)
    /\ probe.raised /\ loc = probe.before

\* C16: when dst exists as a file, Utils.move leaves that file unchanged and
\* writes src under a fresh name: new_unique_file returns a path of the
\* destination directory that did not exist, so no existing file is overwritten.
C16_CollisionRenames ==
    /\ cmd = "move"
    /\ \A i, j \in OnDisk(loc) : loc[i] = loc[j] => i = j
    /\ (probe.called /\ isfile(probe.dst)
           /\ exists(probe.before, trashDepth, probe.dst)) =>
          \A i \in OnDisk(probe.before) :
              \/ loc[i] = probe.before[i]
              \/ /\ probe.before[i] = probe.src /\ probe.src # probe.dst
                 /\ ~exists(probe.before, trashDepth, loc[i])
                 /\ dirname(loc[i]) = dirname(probe.dst)

C16_Witness ==
    /\ probe.called /\ probe.dst = Taken /\ probe.src = probe.before[1]
    /\ probe.before[2] = Taken /\ probe.before[3] = TakenToo
    /\ loc[1] = [Taken EXCEPT !.n = 2] /\ loc[2] = Taken /\ loc[3] = TakenToo

\* the instances that are inside cli()
InCli == { i \in Instances : probe.at[i] = "cli" }
\* the instances that gave up on the lock
TimedOut == { i \in Instances : probe.at[i] = "exited" /\ ~probe.ran[i] }

\* C17 as stated: at most one instance executes a command at a time, and an
\* instance started while the lock is held never runs a command, does not wait
\* for the holder and ends with a non-zero exit status.
C17_SecondNeverRuns ==
    /\ cmd = "lock"
    /\ \A i, j \in InCli : i = j
    /\ \A i \in Instances :
          probe.contended[i] =>
              /\ probe.at[i] # "cli" /\ ~probe.ran[i] /\ probe.waited[i] = 0
              /\ probe.at[i] = "exited" => probe.status[i] # 0

\* C17, amended: at most one instance executes a command at a time and it
\* holds the lock while it does; an instance started while the lock is held
\* polls for up to the timeout of one second, runs its command if the lock is
\* released in that time, and otherwise runs no command and exits with 1.
C17_LockExcludes ==
    /\ cmd = "lock"
    /\ \A i, j \in InCli : i = j
    /\ \A i \in InCli : probe.holder = i
    /\ \A i \in Instances : probe.ran[i] => probe.at[i] \in {"cli", "exited"}
    /\ \A i \in TimedOut :
          /\ probe.waited[i] = LockPolls
          /\ probe.status[i] = 1

C17_Witness ==
    \E i, j \in Instances :
        /\ i # j /\ i \in TimedOut /\ probe.status[i] = 1
        /\ j \in InCli /\ probe.ran[j] /\ probe.contended[j]

\* the number a season or episode value stands for
number(value) == IF value.t = "none" THEN value ELSE int(value.s)

\* C21: two classified files with equal title, year, season number and episode
\* number have the same group key, whichever path extracted season and episode.
C21_KeyIgnoresExtractionPath ==
    /\ cmd = "classify"
    /\ \A i, j \in DOMAIN probe.done :
          LET a == probe.done[i].info
              b == probe.done[j].info
          IN  (/\ a.title # <<>> /\ a.title = b.title
               /\ fmt(a.year) = fmt(b.year)
               /\ number(a.season) = number(b.season)
               /\ number(a.episode) = number(b.episode))
              => group_key(a) = group_key(b)

\* C22: when the loop has been through a group, its top record is not under an
\* extras directory and was not moved unless it was under one, and each record
\* at position 2 or 3 lies in the extras directory of its canonical directory
\* and was not moved if it was under extras already.
C22_ExtrasPlacement ==
    \A g \in DOMAIN media :
        (cmd = "clean" /\ ~dry_run /\ pc # "crashed" /\ Processed(g)) =>
            LET s == sorted(media[g].recs)
            IN  \A i \in DOMAIN s :
                    LET r == s[i]
                        at == loc[r.old_path.name]
                    IN  /\ i = 1 => /\ ~in_extras(at)
                                    /\ ~in_extras(r.old_path) => at = r.old_path
                        /\ i \in {2, 3} =>
                              /\ dirname(at) = extras_dir(r.new_dir)
                              /\ in_extras(r.old_path) => at = r.old_path

\* C23: cleanup_title promotes a 4-digit token of the title to the year only
\* if the year is not set: a year set before cleanup_title runs is unchanged.
C23_YearKeptWhenSet ==
    /\ cmd = "title"
    /\ (probe.applied >= 1 /\ truthy(probe.given.year)) =>
          probe.once.year = probe.given.year

\* C24: two classifications with identical kind, genres, languages and
\* configuration select the same base directory, also when more than one of
\* the languages has a configured directory.
C24_MediaDirDeterministic ==
    /\ cmd = "media_dir"
    /\ Len(probe.dirs) = 2 => probe.dirs[1] = probe.dirs[2]

\* C25: every path is collected at most once by a collect_media_info call and
\* is at most once in a duplicate group, also when the directory list names a
\* directory twice or one directory inside another; no file is demoted or
\* deleted for being grouped with itself.
C25_CollectedOnce ==
    /\ cmd = "collect"
    /\ \A i, j \in DOMAIN probe.paths : probe.paths[i] = probe.paths[j] => i = j
    /\ \A g \in DOMAIN probe.media :
          \A i, j \in DOMAIN probe.media[g].recs :
              probe.media[g].recs[i].old_path = probe.media[g].recs[j].old_path
                  => i = j
    /\ (probe.run = 1 /\ OnDisk(probe.start) = {1}) => loc[1] = probe.start[1]

\* the directory list names no directory twice and none inside another
PlainList ==
    /\ \A i, j \in DOMAIN probe.dirs : probe.dirs[i] = probe.dirs[j] => i = j
    /\ ~({"movies", ArabicDir} \subseteq { probe.dirs[i] : i \in DOMAIN probe.dirs })

\* C26: a second run of the duplicate pass on the library a completed first
\* run left, with no file added, performs no move and no delete, whatever the
\* order in which the second run discovers the files.
C26_SecondRunIdle ==
    /\ cmd = "collect"
    /\ (probe.run = 2 /\ PlainList) =>
          /\ loc = probe.start
          /\ \A k \in DOMAIN probe.acts : probe.acts[k].act # "delete"

\* C27: Utils.move of a directory destroys no data: every file under src
\* that was not moved to dst is still under src when move returns.
C27_DirectoryMoveKeepsData ==
    /\ cmd = "move_dir"
    /\ probe.called =>
          \A i \in OnDisk(probe.before) :
              \/ loc[i] = probe.before[i]
              \/ below(loc[i], probe.dst)

\* C28: under every interleaving of concurrent Utils.move tasks, moves with
\* the same destination never overwrite each other: when all have completed,
\* the content of every source file exists, under a name of its own.
C28_ConcurrentMovesKeepBoth ==
    /\ cmd = "race"
    /\ (\A k \in Movers : probe.at[k] = "done") =>
          /\ \A k \in Movers : loc[k] # NoPath
          /\ \A j, k \in Movers : loc[j] = loc[k] => j = k

\* C29: when delete_low_quality has returned, every soft-delete task it handed
\* to the worker pool has completed.
C29_DeletesDoneOnReturn ==
    (cmd = "clean" /\ pc = "done") =>
        \A t \in DeleteTasks : pool[t].st = "done"

\* C30: authenticate and ensure_valid_token report success only when an
\* authorization was obtained: after an aborted or expired device
\* authentication they return a false result, initialize raises, and no later
\* call proceeds with authorization = None.
C30_SuccessMeansAuthorized ==
    /\ cmd = "trakt"
    /\ (probe.at = "ensured" /\ probe.returned = "True") =>
          probe.authorization # "none"
    /\ probe.initialize = "done" => probe.authorization # "none"
    /\ probe.used # "none"

====
